---- MODULE Spec2Model ----
(***************************************************************************)
(* The persisted rate limiter (AutomationScheduler / SimpleScheduler), the *)
(* web dashboard's scheduler instance that shares daily_stats.json with    *)
(* it, and the per-posting apply loops of the three runners.               *)
(*                                                                         *)
(* Time is a tick counter.  A day has TicksPerDay ticks; the tick within   *)
(* the day stands for the time of day, the day number for the calendar     *)
(* date ('%Y-%m-%d').  A scheduler method runs at one instant: its reads   *)
(* of datetime.now() all yield the same tick.  Time passes between the     *)
(* steps of a run (navigation, form filling, cooldown sleeps).             *)
(***************************************************************************)
EXTENDS Integers, Sequences, FiniteSets, TLC

\* ---------------------------------------------------------------- bounds
MaxTime == 5
MaxLimit == 2
MaxPostings == 2
MaxRequests == 1
MaxBrowsers == 2
MaxApplications == 2
MaxCards == 2

\* The phrases of a job description, and the years of experience of a profile.
MaxWords == 3
MaxYears == 4

\* The threads AutomationManager, and AutomationScheduler, get to start.
MaxThreads == 3

\* ------------------------------------------------------------- constants
\* Python's None for the optional timestamps of daily_stats.
None == -1

\* The times of day the clock distinguishes; a tick is one of them.
DaySlots == <<"morning", "midday", "evening">>
TicksPerDay == Len(DaySlots)

Instances == {"runner", "dashboard"}
Threads == 1..MaxThreads
RunnerKinds == {"enhanced", "simple_enhanced", "automated"}

\* Day 0 is a Friday (Monday = 0), so day 1 is a Saturday.
StartWeekdays == {4}

\* config["optimal_times"]: named periods, each a closed interval of the day.
OptimalTimesChoices ==
    { <<[start |-> 0, end |-> 0], [start |-> 2, end |-> 2]>> }

\* config["max_session_duration"], in ticks.
SessionLimits == {1}

\* The durations the dashboard's pause request carries, in ticks.
PauseDurations == {1, 2}

VARIABLES
    now,          \* the wall clock, in ticks
    weekday0,     \* the weekday of day 0
    config,       \* scheduler_config.json as loaded by every scheduler
    file,         \* daily_stats.json
    disk,         \* how a write of daily_stats.json ends
    alive,        \* which scheduler instances are constructed
    stats,        \* self.daily_stats of each instance
    runnerKind,   \* which runner drives the "runner" instance
    pc,           \* the runner's position
    postings,     \* postings the runs have taken up so far
    requests,     \* control requests (pause, resume) the dashboard has served
    last,         \* the last scheduler method called, and what it returned
    submitted,    \* per date: applications whose submit went through
    attemptedAfterDenial, \* an attempt was started after a denial in the run
    denied,       \* can_apply_now has denied a posting of the current run
    recCalls,     \* the runner's record_application calls on the current date
    zeroStart,    \* the runner's scheduler began the current date at 0
    klass,        \* the automation class: LinkedInAutomation or the enhanced one
    max_applications_per_day, \* LinkedInConfig.max_applications_per_day
    driver,       \* self.driver: None or the browser it refers to
    wait,         \* self.wait: None or the browser its WebDriverWait is bound to
    applications_today, \* self.applications_today
    browsers,     \* the browsers started and not quit
    spawned,      \* how many browsers have been started
    sessionUp,    \* start_session has returned True and close_session not run since
    call,         \* the last method called on the automation, and its outcome
    entry,        \* the entry point of the run: main.py, app.py or the enhanced run
    rpc,          \* the run's position
    is_running,   \* AutomationManager.is_running
    jobs,         \* the postings the apply loop goes through
    ix,           \* the loop's position in jobs
    applications_sent, \* the loop's count of successful applications
    summary,      \* what the run reports: its counts, how it ended, the keys it carries
    attempted,    \* the cards for which an application attempt was started, in order
    stopped,      \* the attempts made when stop_automation was called, or None
    listed,       \* the results page the run's listing call read
    user_profile, \* the UserProfile handed to the matcher
    job_description, \* the posting's text, as the phrases it is made of
    job_requirements, \* what extract_job_requirements returned
    job_match,    \* what calculate_match_score returned and computed
    mpc,          \* match_job's position
    form,         \* the Easy Apply form being handled: the page shown, the
                  \* pages handled, what the handler returned
    threads,      \* app.py: where each _run_automation thread stands
    scheduler_is_running, \* AutomationScheduler.is_running
    scheduler_thread, \* AutomationScheduler.scheduler_thread: None or a thread
    loops,        \* where each _run_scheduler thread stands
    stopped_threads, \* the loop threads a returned stop_scheduler had stopped
    trigger       \* the last _run_automation_with_checks: what it did; when
                  \* an automation function last failed with no
                  \* resume_automation since, and whether pause_automation
                  \* was called after that failure

schedVars == <<now, weekday0, config, file, disk, alive, stats, last>>
runVars == <<runnerKind, pc, postings, attemptedAfterDenial, denied>>
dashVars == <<requests>>
ghostVars == <<submitted, recCalls, zeroStart>>
sessVars == <<klass, max_applications_per_day, driver, wait,
              applications_today, browsers, spawned, sessionUp, call>>
runsVars == <<entry, rpc, is_running, jobs, ix, applications_sent, summary,
              attempted, stopped, listed>>
matchVars == <<user_profile, job_description, job_requirements, job_match, mpc>>
formVars == <<form>>
threadVars == <<threads, scheduler_is_running, scheduler_thread, loops,
                stopped_threads, trigger>>
libVars == <<matchVars, formVars, threadVars>>
vars == <<schedVars, runVars, dashVars, ghostVars, sessVars, runsVars, libVars>>

\* The matcher has been handed nothing.
NoProfile ==
    [skills |-> <<>>, experience_years |-> 0, education |-> <<>>,
     preferred_industries |-> <<>>, preferred_locations |-> <<>>,
     remote_preference |-> FALSE]

NoRequirements ==
    [skills |-> <<>>, min_experience |-> 0, education_required |-> <<>>,
     locations |-> <<>>, is_remote |-> FALSE, full_text |-> <<>>]

NoMatch ==
    [match_score |-> 0, reasons |-> <<>>, missing_skills |-> <<>>,
     skill_score |-> 0, total_skills |-> 0,
     skill_match_percentage |-> [num |-> 0, den |-> 1],
     experience_score |-> [num |-> 0, den |-> 1],
     education_score |-> 0, location_score |-> 0, industry_score |-> 0,
     recommended_actions |-> <<>>]

MatcherIdle ==
    /\ user_profile = NoProfile
    /\ job_description = <<>>
    /\ job_requirements = NoRequirements
    /\ job_match = NoMatch
    /\ mpc = "idle"

\* No page of a form is shown.
NoPage ==
    [fault |-> "none", next |-> <<>>, submit |-> <<>>, success |-> <<>>,
     error |-> FALSE]

\* No form is open.
NoForm ==
    [handler |-> "none", pos |-> "idle", page |-> 0, shown |-> NoPage,
     clicked |-> FALSE, ret |-> FALSE]

\* No scheduled trigger has run.
NoTrigger == [ran |-> FALSE, invoked |-> FALSE, raised |-> FALSE,
              propagated |-> FALSE, failed_at |-> None, repaused |-> FALSE]

\* No thread has been started, neither by AutomationManager nor by
\* AutomationScheduler.
ThreadsIdle ==
    /\ threads = [k \in Threads |-> "unborn"]
    /\ scheduler_is_running = FALSE
    /\ scheduler_thread = None
    /\ loops = [k \in Threads |-> "unborn"]
    /\ stopped_threads = {}
    /\ trigger = NoTrigger

\* The parts of the program that are used on their own stand still.
LibIdle == MatcherIdle /\ form = NoForm /\ ThreadsIdle

\* ------------------------------------------------------------ the clock
\* datetime.now().strftime('%Y-%m-%d')
DateOf(t) == t \div TicksPerDay
\* datetime.now().time()
TimeOfDay(t) == t % TicksPerDay
\* datetime.now().weekday()
WeekdayOf(t) == (weekday0 + DateOf(t)) % 7
Today == DateOf(now)

\* ------------------------------------------------- AutomationScheduler
default_stats(t) ==
    [current_date |-> DateOf(t),
     applications_sent |-> 0,
     last_application_time |-> None,
     session_start_time |-> None,
     total_session_time |-> 0,
     paused_until |-> None]

MissingFile == [state |-> "missing", stats |-> default_stats(0)]
CorruptFile == [state |-> "corrupt", stats |-> default_stats(0)]

\* _load_daily_stats: the file's content when it exists, parses and carries
\* today's date; the defaults otherwise.
load_daily_stats(f, t) ==
    IF f.state = "ok"
    THEN IF f.stats.current_date # DateOf(t)
         THEN default_stats(t)
         ELSE f.stats
    ELSE default_stats(t)

\* _save_daily_stats: the new content of the file.  A failure is caught and
\* logged: when open(..., 'w') raises the file is untouched, when json.dump
\* raises the file has been truncated and no longer parses.
save_daily_stats(f, st, d) ==
    IF d = "ok" THEN [state |-> "ok", stats |-> st]
    ELSE IF d = "open_fails" THEN f
    ELSE CorruptFile

\* _reset_daily_stats (the state it installs; the caller saves it)
reset_daily_stats(t) == default_stats(t)

\* _is_optimal_time
is_optimal_time(t) ==
    \E k \in 1..Len(config.optimal_times) :
        /\ config.optimal_times[k].start <= TimeOfDay(t)
        /\ TimeOfDay(t) <= config.optimal_times[k].end

Ret(a, r) == [allowed |-> a, reason |-> r]

\* The date check with a reset that keeps the count.
after_date_check_keeps_count(st, t) ==
    IF st.current_date # DateOf(t)
    THEN [reset_daily_stats(t) EXCEPT
             !.applications_sent = st.applications_sent]
    ELSE st

\* The state can_apply_now decides on: reset when the stored date is stale.
after_date_check(st, t) ==
    IF st.current_date # DateOf(t) THEN reset_daily_stats(t) ELSE st

\* can_apply_now with the time window checked before the daily limit.
can_apply_now_window_first(st, t) ==
    LET s == after_date_check(st, t) IN
    IF s.paused_until # None /\ t < s.paused_until
    THEN Ret(FALSE, "Automation paused")
    ELSE IF ~is_optimal_time(t)
    THEN Ret(FALSE, "Not an optimal time for applications")
    ELSE IF s.applications_sent >= config.daily_application_limit
    THEN IF config.auto_pause_on_limit
         THEN Ret(FALSE, "Daily application limit reached")
         ELSE Ret(TRUE, "Daily limit reached but auto-pause disabled")
    ELSE IF config.weekdays_only /\ WeekdayOf(t) >= 5
    THEN Ret(FALSE, "Weekend - automation disabled")
    ELSE IF s.session_start_time # None
            /\ t - s.session_start_time > config.max_session_duration
    THEN Ret(FALSE, "Maximum session duration reached")
    ELSE Ret(TRUE, "Ready to apply")

\* can_apply_now without the weekday restriction.
can_apply_now_no_weekday_check(st, t) ==
    LET s == after_date_check(st, t) IN
    IF s.paused_until # None /\ t < s.paused_until
    THEN Ret(FALSE, "Automation paused")
    ELSE IF s.applications_sent >= config.daily_application_limit
    THEN IF config.auto_pause_on_limit
         THEN Ret(FALSE, "Daily application limit reached")
         ELSE Ret(TRUE, "Daily limit reached but auto-pause disabled")
    ELSE IF ~is_optimal_time(t)
    THEN Ret(FALSE, "Not an optimal time for applications")
    ELSE IF s.session_start_time # None
            /\ t - s.session_start_time > config.max_session_duration
    THEN Ret(FALSE, "Maximum session duration reached")
    ELSE Ret(TRUE, "Ready to apply")

\* AutomationScheduler.can_apply_now: the (allowed, reason) it returns.
can_apply_now(st, t) ==
    LET s == after_date_check(st, t) IN
    IF s.paused_until # None /\ t < s.paused_until
    THEN Ret(FALSE, "Automation paused")
    ELSE IF s.applications_sent >= config.daily_application_limit
    THEN IF config.auto_pause_on_limit
         THEN Ret(FALSE, "Daily application limit reached")
         ELSE Ret(TRUE, "Daily limit reached but auto-pause disabled")
    ELSE IF ~is_optimal_time(t)
    THEN Ret(FALSE, "Not an optimal time for applications")
    ELSE IF config.weekdays_only /\ WeekdayOf(t) >= 5
    THEN Ret(FALSE, "Weekend - automation disabled")
    ELSE IF s.session_start_time # None
            /\ t - s.session_start_time > config.max_session_duration
    THEN Ret(FALSE, "Maximum session duration reached")
    ELSE Ret(TRUE, "Ready to apply")

\* SimpleScheduler.can_apply_now: the same without the session check.
simple_can_apply_now(st, t) ==
    LET s == after_date_check(st, t) IN
    IF s.paused_until # None /\ t < s.paused_until
    THEN Ret(FALSE, "Automation paused")
    ELSE IF s.applications_sent >= config.daily_application_limit
    THEN IF config.auto_pause_on_limit
         THEN Ret(FALSE, "Daily application limit reached")
         ELSE Ret(TRUE, "Daily limit reached but auto-pause disabled")
    ELSE IF ~is_optimal_time(t)
    THEN Ret(FALSE, "Not an optimal time for applications")
    ELSE IF config.weekdays_only /\ WeekdayOf(t) >= 5
    THEN Ret(FALSE, "Weekend - automation disabled")
    ELSE Ret(TRUE, "Ready to apply")

\* record_application: the new daily_stats.
record_application(st, t) ==
    [st EXCEPT !.applications_sent = @ + 1,
               !.last_application_time = t,
               !.session_start_time = IF @ = None THEN t ELSE @]

\* pause_automation(duration_minutes): the new daily_stats.
pause_automation(st, t, m) == [st EXCEPT !.paused_until = t + m]

\* resume_automation: the new daily_stats.
resume_automation(st) == [st EXCEPT !.paused_until = None]

\* The scheduler class behind each instance: the dashboard and the enhanced
\* runner construct an AutomationScheduler, the other runners a SimpleScheduler.
IsSimple(i) == i = "runner" /\ runnerKind # "enhanced"

decide(i, st, t) ==
    IF IsSimple(i) THEN simple_can_apply_now(st, t) ELSE can_apply_now(st, t)

Max(a, b) == IF a >= b THEN a ELSE b

\* get_daily_progress: the dictionary it returns (next_optimal_time and
\* session_duration, which no decision reads, are left out).
get_daily_progress(i, st, t) ==
    LET s == after_date_check(st, t)
        r == decide(i, st, t) IN
    [applications_sent |-> s.applications_sent,
     daily_limit |-> config.daily_application_limit,
     remaining_applications |->
         Max(0, config.daily_application_limit - s.applications_sent),
     can_apply_now |-> r.allowed,
     reason |-> r.reason,
     is_paused |-> s.paused_until # None,
     paused_until |-> s.paused_until]

\* ------------------------------------------------ scheduler method calls
Called(op, i, a, r) == [op |-> op, inst |-> i, allowed |-> a, reason |-> r]

\* __init__: self.daily_stats = self._load_daily_stats()
Construct(i) ==
    LET s == load_daily_stats(file, now) IN
    /\ alive' = [alive EXCEPT ![i] = TRUE]
    /\ stats' = [stats EXCEPT ![i] = s]
    /\ IF i = "runner"
       THEN zeroStart' = (s.applications_sent = 0) /\ recCalls' = 0
       ELSE UNCHANGED <<zeroStart, recCalls>>
    /\ UNCHANGED file

\* can_apply_now on instance i: the date check with its save, the decision.
\* get_daily_progress calls it first and changes nothing else.
CallCanApplyNow(i, op) ==
    LET stale == stats[i].current_date # Today
        s == after_date_check(stats[i], now)
        r == decide(i, stats[i], now) IN
    /\ stats' = [stats EXCEPT ![i] = s]
    /\ file' = IF stale THEN save_daily_stats(file, s, disk) ELSE file
    /\ last' = Called(op, i, r.allowed, r.reason)
    /\ zeroStart' = IF stale /\ i = "runner"
                    THEN (zeroStart \/ recCalls = 0)
                    ELSE zeroStart
    /\ UNCHANGED <<alive, recCalls>>

\* record_application that gives up its update when the write fails.
CallRecordApplication_rolls_back(i) ==
    LET s == IF disk = "ok" THEN record_application(stats[i], now)
             ELSE stats[i] IN
    /\ stats' = [stats EXCEPT ![i] = s]
    /\ file' = save_daily_stats(file, s, disk)
    /\ last' = Called("record_application", i, FALSE, "")
    /\ recCalls' = recCalls + 1
    /\ UNCHANGED <<alive, zeroStart>>

CallRecordApplication(i) ==
    LET s == record_application(stats[i], now) IN
    /\ stats' = [stats EXCEPT ![i] = s]
    /\ file' = save_daily_stats(file, s, disk)
    /\ last' = Called("record_application", i, FALSE, "")
    /\ recCalls' = recCalls + 1
    /\ UNCHANGED <<alive, zeroStart>>

CallPauseAutomation(i, m) ==
    LET s == pause_automation(stats[i], now, m) IN
    /\ stats' = [stats EXCEPT ![i] = s]
    /\ file' = save_daily_stats(file, s, disk)
    /\ last' = Called("pause_automation", i, FALSE, "")
    /\ UNCHANGED <<alive, zeroStart, recCalls>>

CallResumeAutomation(i) ==
    LET s == resume_automation(stats[i]) IN
    /\ stats' = [stats EXCEPT ![i] = s]
    /\ file' = save_daily_stats(file, s, disk)
    /\ last' = Called("resume_automation", i, FALSE, "")
    /\ UNCHANGED <<alive, zeroStart, recCalls>>

\* ------------------------------------------- the automation's method calls
\* What a method call leaves behind: its name, what it returned (ret for the
\* bool methods, jobs for the listings), whether it raised, and what it went
\* through on the way: the candidates tried in order, the one that won, the
\* strategy names its error message carries, the login attempts made, the
\* warning logged, what each candidate or attempt met (input), what followed
\* the driver's construction (post) and the results page read (page).
NoCall ==
    [op |-> "none", ret |-> FALSE, raised |-> FALSE, tried |-> <<>>,
     winner |-> 0, names |-> {}, setup |-> "none", attempts |-> 0,
     warned |-> FALSE, jobs |-> <<>>, page |-> <<>>, input |-> <<>>,
     post |-> "none", slept |-> {}]

Returned(op, r) == [NoCall EXCEPT !.op = op, !.ret = r]

\* _setup_driver: approaches, tried in this order.
approaches ==
    <<"webdriver-manager (latest)", "no service (selenium default)",
      "local chromedriver">>

\* What building the service and the Chrome driver of one approach may do.
DriverOutcomes == {"ok", "raises"}

try_approaches_last_wins(k, outcomes, tried) ==
    [tried |-> tried \o [j \in 1..(Len(approaches) - k + 1) |-> k + j - 1],
     winner |-> IF \E j \in k..Len(approaches) : outcomes[j] = "ok"
                THEN CHOOSE j \in k..Len(approaches) :
                        /\ outcomes[j] = "ok"
                        /\ \A i \in k..Len(approaches) :
                              outcomes[i] = "ok" => i <= j
                ELSE 0]

\* The for loop of _setup_driver from approach k on, with the approaches
\* tried so far: the first approach that does not raise wins (break); an
\* approach that raises is logged and the loop continues.  winner 0: the
\* loop ran out.
RECURSIVE try_approaches(_, _, _)
try_approaches(k, outcomes, tried) ==
    IF k > Len(approaches) THEN [tried |-> tried, winner |-> 0]
    ELSE IF outcomes[k] = "ok"
    THEN [tried |-> Append(tried, k), winner |-> k]
    ELSE try_approaches(k + 1, outcomes, Append(tried, k))

\* The strategy names the message of the exception raised on exhaustion
\* carries: "All ChromeDriver approaches failed - please update Chrome or
\* ChromeDriver" names none.
exhaustion_names(tried) == {}

\* What follows the loop in _setup_driver and start_session, each a call on
\* the new driver that may raise.
AfterDriver == {"ok", "execute_script raises", "maximize_window raises"}

IsEnhanced == klass = "EnhancedLinkedInAutomation"

\* `if self.driver:` / `if not self.driver:`
HasDriver == driver # None

\* A call on self.driver goes through: the attribute refers to a browser
\* that is still running.  On None it raises AttributeError, on a browser
\* that was quit a WebDriverException.
DriverResponds == driver # None /\ driver \in browsers

SessionFrame == UNCHANGED <<klass, max_applications_per_day>>

\* start_session.  LinkedInAutomation: _setup_driver (the fallback loop, then
\* execute_script and the timeouts), WebDriverWait, maximize_window.
\* EnhancedLinkedInAutomation: _setup_enhanced_driver (one strategy, then
\* execute_script and the timeouts), WebDriverWait.  Every exception is
\* caught by start_session, which then returns False.
CallStartSession(outcomes, post) ==
    LET r == IF IsEnhanced
             THEN [tried |-> <<1>>,
                   winner |-> IF outcomes[1] = "ok" THEN 1 ELSE 0]
             ELSE try_approaches(1, outcomes, <<>>)
        b == spawned + 1
        c == [Returned("start_session", FALSE) EXCEPT
                 !.tried = r.tried, !.winner = r.winner, !.post = post,
                 !.input = [k \in 1..Len(r.tried) |-> outcomes[r.tried[k]]]]
    IN
    /\ r.winner # 0 => spawned < MaxBrowsers
    /\ IsEnhanced => post # "maximize_window raises"
    /\ r.winner = 0 => post = "ok"
    /\ IF r.winner = 0
       THEN /\ call' = [c EXCEPT !.setup = "exhausted",
                                 !.names = IF IsEnhanced THEN {}
                                           ELSE exhaustion_names(r.tried)]
            /\ UNCHANGED <<driver, wait, browsers, spawned, sessionUp>>
       ELSE /\ spawned' = b
            /\ browsers' = browsers \cup {b}
            /\ CASE post = "execute_script raises" ->
                      /\ call' = [c EXCEPT !.setup = "script_failed"]
                      /\ UNCHANGED <<driver, wait, sessionUp>>
                 [] post = "maximize_window raises" ->
                      /\ call' = [c EXCEPT !.setup = "returned"]
                      /\ driver' = b
                      /\ wait' = b
                      /\ UNCHANGED sessionUp
                 [] post = "ok" ->
                      /\ call' = [c EXCEPT !.setup = "returned", !.ret = TRUE]
                      /\ driver' = b
                      /\ wait' = b
                      /\ sessionUp' = TRUE
    /\ UNCHANGED applications_today
    /\ SessionFrame

\* close_session: quit the browser when self.driver is set (an exception of
\* quit is caught and logged).  LinkedInAutomation then sets self.driver to
\* None; EnhancedLinkedInAutomation leaves the attribute as it is.
CallCloseSession ==
    /\ browsers' = IF HasDriver THEN browsers \ {driver} ELSE browsers
    /\ driver' = IF IsEnhanced THEN driver ELSE None
    /\ sessionUp' = FALSE
    /\ call' = Returned("close_session", FALSE)
    /\ UNCHANGED <<wait, applications_today, spawned>>
    /\ SessionFrame

\* What one login attempt may meet after the form is submitted: the logged-in
\* indicators, a verification page (challenge / checkpoint), neither within
\* the timeout, or an exception on the way.
LoginOutcomes == {"logged_in", "challenge", "timeout", "exception"}

\* EnhancedLinkedInAutomation.login: max_retries
max_retries == 3

\* EnhancedLinkedInAutomation.login, the retry loop from attempt k on: an
\* attempt that finds the user logged in returns True; any other attempt is
\* logged and the loop goes on; after max_retries attempts it returns False.
RECURSIVE enhanced_login(_, _)
enhanced_login(k, outcomes) ==
    IF k > max_retries THEN [ret |-> FALSE, attempts |-> max_retries]
    ELSE IF outcomes[k] = "logged_in" THEN [ret |-> TRUE, attempts |-> k]
    ELSE enhanced_login(k + 1, outcomes)

\* LinkedInAutomation.login: one attempt; True only when the logged-in
\* indicators appear, False on a verification page, on a timeout and on any
\* exception.
la_login(outcome) == [ret |-> outcome = "logged_in", attempts |-> 1]

\* EnhancedLinkedInAutomation.login: the attempts that are followed by the
\* backoff time.sleep(random.uniform(2, 4)).  The sleep stands in the except
\* clause of the attempt, under `if attempt < max_retries - 1`; the branch
\* of _is_logged_in() returning False only logs a warning.
backoff_after(outcomes, attempts) ==
    {k \in 1..attempts : outcomes[k] = "exception" /\ k < max_retries}

\* LinkedInAutomation.login returns False at once without a driver; in
\* EnhancedLinkedInAutomation.login the first self.driver.get raises before
\* the retry loop on a driver that is None or was quit, and login returns
\* False from its outer except clause.
CallLogin(outcomes) ==
    LET r == IF IsEnhanced THEN enhanced_login(1, outcomes)
             ELSE la_login(outcomes[1])
        went == IF IsEnhanced THEN DriverResponds ELSE HasDriver
    IN
    /\ call' = IF went
               THEN [Returned("login", r.ret) EXCEPT
                        !.attempts = r.attempts,
                        !.input = SubSeq(outcomes, 1, r.attempts),
                        !.slept = IF IsEnhanced
                                  THEN backoff_after(outcomes, r.attempts)
                                  ELSE {}]
               ELSE Returned("login", FALSE)
    /\ UNCHANGED <<driver, wait, applications_today, browsers, spawned,
                   sessionUp>>
    /\ SessionFrame

\* search_jobs: selectors_to_try, the listing markers waited for in order.
selectors_to_try ==
    <<"jobs-search-results-list", "jobs-search-results",
      ".scaffold-layout__list-container",
      "[data-test-id='job-search-results']",
      ".jobs-search__results-list", ".jobs-search-results__list">>

\* search_jobs_enhanced waits for one marker.
enhanced_markers == <<"[data-test-id='job-card']">>

Markers == IF IsEnhanced THEN enhanced_markers ELSE selectors_to_try

\* What wait.until may do for one marker: return the element, raise
\* TimeoutException, or raise another exception.
MarkerOutcomes == {"present", "timeout", "raises"}

wait_for_markers_timeout_fatal(k, n, markers, tried) ==
    IF k > n THEN [tried |-> tried, winner |-> 0, raised |-> FALSE]
    ELSE IF markers[k] = "present"
    THEN [tried |-> Append(tried, k), winner |-> k, raised |-> FALSE]
    ELSE [tried |-> Append(tried, k), winner |-> 0, raised |-> TRUE]

\* The waits of search_jobs from marker k of n on: the first marker present
\* ends the loop; a TimeoutException is caught and the next marker is tried;
\* any other exception leaves the loop for the outer except clause.
RECURSIVE wait_for_markers(_, _, _, _)
wait_for_markers(k, n, markers, tried) ==
    IF k > n THEN [tried |-> tried, winner |-> 0, raised |-> FALSE]
    ELSE IF markers[k] = "present"
    THEN [tried |-> Append(tried, k), winner |-> k, raised |-> FALSE]
    ELSE IF markers[k] = "raises"
    THEN [tried |-> Append(tried, k), winner |-> 0, raised |-> TRUE]
    ELSE wait_for_markers(k + 1, n, markers, Append(tried, k))

\* search_jobs / search_jobs_enhanced: False without a driver and on any
\* exception; True after the navigation, whether a marker appeared or all
\* waits timed out (then a warning is logged).
CallSearchJobs(nav, markers) ==
    LET r == wait_for_markers(1, Len(Markers), markers, <<>>)
        went == IF IsEnhanced THEN DriverResponds ELSE HasDriver
    IN
    /\ call' =
          IF ~went \/ nav = "raises"
          THEN [Returned("search_jobs", FALSE) EXCEPT
                   !.input = IF went THEN <<nav>> ELSE <<>>]
          ELSE [Returned("search_jobs", ~r.raised) EXCEPT
                   !.tried = r.tried,
                   !.winner = r.winner,
                   !.warned = (~r.raised /\ r.winner = 0),
                   !.input = <<nav>> \o [k \in 1..Len(r.tried) |-> markers[k]]]
    /\ UNCHANGED <<driver, wait, applications_today, browsers, spawned,
                   sessionUp>>
    /\ SessionFrame

\* get_job_listings: job_selectors, the XPath candidates for the job cards.
job_selectors ==
    <<"div job-card-container", "div jobs-search-results__list-item",
      "li jobs-search-results__list-item", "div job-card-list",
      "div job-card", "li job-card",
      "div jobs-search-results__list // div job-card">>

\* get_job_listings_enhanced: job_selectors.
enhanced_job_selectors ==
    <<"div job-card-container", "div jobs-search-results-list // li",
      "div data-test-id job-card", "article job-card", "div base-card">>

JobSelectors == IF IsEnhanced THEN enhanced_job_selectors ELSE job_selectors

\* The loop over job_selectors from candidate k of n on, hits being the
\* candidates for which find_elements returns a non-empty list: the first
\* of them wins (break).
RECURSIVE first_selector(_, _, _, _)
first_selector(k, n, hits, tried) ==
    IF k > n THEN [tried |-> tried, winner |-> 0]
    ELSE IF k \in hits THEN [tried |-> Append(tried, k), winner |-> k]
    ELSE first_selector(k + 1, n, hits, Append(tried, k))

\* self.min_match_score
min_match_score == 70

\* The match scores the AI matcher may give a posting.
Scores == {40, 70, 80}

\* A job card of the results page: whether it shows Easy Apply, and the
\* score the matcher gives it.
Cards == [easy_apply : BOOLEAN, score : Scores]

\* The results pages: up to MaxCards cards, each with its position.
Pages ==
    UNION { [1..n -> Cards] : n \in 0..MaxCards }

\* The job dictionaries made of the cards of a page, in page order:
\* get_job_listings keeps every card (has_easy_apply is only recorded),
\* get_job_listings_enhanced keeps the cards whose score is at least
\* min_match_score (smart_filtering is always on) and does not look at
\* easy_apply.  nr is the card's position on the page.
RECURSIVE extract_jobs(_, _)
extract_jobs(page, k) ==
    IF k > Len(page) THEN <<>>
    ELSE LET job == [nr |-> k, easy_apply |-> page[k].easy_apply,
                     score |-> page[k].score]
         IN IF IsEnhanced /\ ~(page[k].score >= min_match_score)
            THEN extract_jobs(page, k + 1)
            ELSE <<job>> \o extract_jobs(page, k + 1)

\* get_job_listings / get_job_listings_enhanced: [] without a driver, on an
\* exception and when no selector finds a card.
CallGetJobListings(hits, page) ==
    LET r == first_selector(1, Len(JobSelectors), hits, <<>>)
        went == IF IsEnhanced THEN DriverResponds ELSE HasDriver
    IN
    /\ (hits = {}) = (page = <<>>)
    /\ call' =
          IF ~went THEN [Returned("get_job_listings", FALSE) EXCEPT
                            !.jobs = <<>>]
          ELSE [Returned("get_job_listings", FALSE) EXCEPT
                   !.tried = r.tried,
                   !.winner = r.winner,
                   !.input = [k \in 1..Len(r.tried) |->
                                 IF r.tried[k] \in hits THEN "found"
                                 ELSE "empty"],
                   !.page = page,
                   !.jobs = IF r.winner = 0 THEN <<>>
                            ELSE extract_jobs(page, 1)]
    /\ UNCHANGED <<driver, wait, applications_today, browsers, spawned,
                   sessionUp>>
    /\ SessionFrame

\* What an application attempt may meet once apply_to_job has passed its
\* checks: no Easy Apply button on the card, the form submitted, the form
\* handling failing, or an exception.
ApplyOutcomes == {"no_button", "submitted", "form_fails", "raises"}

apply_to_job_no_limit_check(job_info, outcome) ==
    IF ~HasDriver THEN FALSE
    ELSE IF ~job_info.easy_apply THEN FALSE
    ELSE outcome = "submitted"

\* LinkedInAutomation.apply_to_job: the value it returns.
apply_to_job(job_info, outcome) ==
    IF ~HasDriver THEN FALSE
    ELSE IF ~job_info.easy_apply THEN FALSE
    ELSE IF applications_today >= max_applications_per_day THEN FALSE
    ELSE outcome = "submitted"

\* apply_to_job that counts every attempt it starts.
CallApplyToJob_counts_attempts(job_info, outcome) ==
    LET ok == apply_to_job(job_info, outcome)
        passed == /\ HasDriver
                  /\ job_info.easy_apply
                  /\ applications_today < max_applications_per_day
    IN
    /\ applications_today' = IF passed THEN applications_today + 1
                             ELSE applications_today
    /\ call' = [Returned("apply_to_job", ok) EXCEPT
                   !.jobs = <<job_info>>,
                   !.input = IF passed THEN <<outcome>> ELSE <<>>]
    /\ UNCHANGED <<driver, wait, browsers, spawned, sessionUp>>
    /\ SessionFrame

\* apply_to_job increments applications_today exactly when it returns True.
CallApplyToJob(job_info, outcome) ==
    LET ok == apply_to_job(job_info, outcome)
        passed == /\ HasDriver
                  /\ job_info.easy_apply
                  /\ applications_today < max_applications_per_day
    IN
    /\ applications_today' = IF ok THEN applications_today + 1
                             ELSE applications_today
    /\ call' = [Returned("apply_to_job", ok) EXCEPT
                   !.jobs = <<job_info>>,
                   !.input = IF passed THEN <<outcome>> ELSE <<>>]
    /\ UNCHANGED <<driver, wait, browsers, spawned, sessionUp>>
    /\ SessionFrame

\* LinkedInAutomation.send_message: False without a driver and on any
\* exception.
CallSendMessage(outcome) ==
    /\ call' = [Returned("send_message", HasDriver /\ outcome = "ok") EXCEPT
                   !.input = IF HasDriver THEN <<outcome>> ELSE <<>>]
    /\ UNCHANGED <<driver, wait, applications_today, browsers, spawned,
                   sessionUp>>
    /\ SessionFrame

\* LinkedInAutomation.get_application_stats: the dictionary it returns.
get_application_stats ==
    [applications_today |-> applications_today,
     max_applications_per_day |-> max_applications_per_day,
     remaining_applications |->
         max_applications_per_day - applications_today]

CallGetApplicationStats ==
    /\ call' = Returned("get_application_stats", FALSE)
    /\ UNCHANGED <<driver, wait, applications_today, browsers, spawned,
                   sessionUp>>
    /\ SessionFrame

\* ----------------------------------------------------------- the state
Configs ==
    [daily_application_limit : 1..MaxLimit,
     optimal_times : OptimalTimesChoices,
     weekdays_only : BOOLEAN,
     max_session_duration : SessionLimits,
     auto_pause_on_limit : BOOLEAN]

\* daily_stats.json as an earlier process of the day may have left it: no
\* file, or today's record with nothing or one application recorded at the
\* current tick, paused by the dashboard or not.
InitFiles ==
    {MissingFile} \cup
    { [state |-> "ok",
       stats |-> [current_date |-> 0,
                  applications_sent |-> n,
                  last_application_time |-> IF n = 0 THEN None ELSE 0,
                  session_start_time |-> IF n = 0 THEN None ELSE 0,
                  total_session_time |-> 0,
                  paused_until |-> p]] :
      n \in {0, 1}, p \in {None} \cup PauseDurations }

SchedulerInit(f) ==
    /\ now = 0
    /\ weekday0 \in StartWeekdays
    /\ config \in Configs
    /\ file = f
    /\ disk = "ok"
    /\ alive = [i \in Instances |-> FALSE]
    /\ stats = [i \in Instances |-> default_stats(0)]
    /\ runnerKind \in RunnerKinds
    /\ pc = "idle"
    /\ postings = 0
    /\ requests = 0
    /\ last = Called("none", "runner", FALSE, "")
    /\ submitted = [d \in 0..DateOf(MaxTime) |->
                       IF d = 0 /\ f.state = "ok"
                       THEN f.stats.applications_sent ELSE 0]
    /\ attemptedAfterDenial = FALSE
    /\ denied = FALSE
    /\ recCalls = 0
    /\ zeroStart = FALSE

\* What a run has reported before it reports anything.
NoSummary ==
    [jobs_found |-> 0, applications_sent |-> 0, ending |-> "none",
     success |-> FALSE, keys |-> {}]

\* No run of main.py, app.py or run_automation_enhanced is under way.
RunsIdle ==
    /\ entry = "enhanced"
    /\ rpc = "idle"
    /\ is_running = FALSE
    /\ jobs = <<>>
    /\ ix = 1
    /\ applications_sent = 0
    /\ summary = NoSummary
    /\ attempted = <<>>
    /\ stopped = None
    /\ listed = <<>>

\* No automation object is in use: the enhanced runner's is taken as built.
InitWith(f) ==
    /\ SchedulerInit(f)
    /\ RunsIdle
    /\ LibIdle
    /\ klass = "EnhancedLinkedInAutomation"
    /\ max_applications_per_day = 1
    /\ driver = None
    /\ wait = None
    /\ applications_today = 0
    /\ browsers = {}
    /\ spawned = 0
    /\ sessionUp = FALSE
    /\ call = NoCall

\* One process at a time uses daily_stats.json: the runs of a runner.
Init == \E f \in InitFiles : InitWith(f)

\* The first run of the day with the dashboard beside it.
InitShared == InitWith(MissingFile)

\* Time passes.  At midnight a new date begins: the runner's scheduler has
\* made no record_application call on it, and begins it at 0 when its count
\* is 0.
Tick ==
    /\ now < MaxTime
    /\ now' = now + 1
    /\ IF DateOf(now + 1) # Today
       THEN /\ zeroStart' = (/\ alive["runner"]
                             /\ stats["runner"].applications_sent = 0)
            /\ recCalls' = 0
       ELSE UNCHANGED <<zeroStart, recCalls>>
    /\ UNCHANGED <<weekday0, config, file, disk, alive, stats, last>>
    /\ UNCHANGED runVars
    /\ UNCHANGED dashVars
    /\ UNCHANGED submitted
    /\ UNCHANGED sessVars
    /\ UNCHANGED runsVars
    /\ UNCHANGED libVars

Frame ==
    UNCHANGED <<now, weekday0, config, disk, runnerKind, sessVars, runsVars,
                libVars>>

\* A step of the runner leaves the dashboard's request count alone.
RunnerFrame == Frame /\ UNCHANGED dashVars

\* The dashboard serves one more control request and leaves the run alone.
Served ==
    /\ requests < MaxRequests
    /\ requests' = requests + 1
    /\ UNCHANGED <<pc, postings, submitted, denied, attemptedAfterDenial>>
    /\ Frame

\* ------------------------------------------------------------ the runners
\* The loop reaches the next posting of jobs, or the list is exhausted.
NextPosting ==
    \/ postings < MaxPostings /\ pc' = "gate" /\ postings' = postings + 1
    \/ pc' = "done" /\ UNCHANGED postings

\* A run starts: the scheduler is constructed over daily_stats.json.  The
\* enhanced runner goes on to its session; the other two first ask
\* can_apply_now once.
RunnerStart ==
    /\ pc \in {"idle", "done"}
    /\ postings < MaxPostings
    /\ Construct("runner")
    /\ last' = Called("construct", "runner", FALSE, "")
    /\ IF runnerKind = "enhanced"
       THEN pc' = "gate" /\ postings' = postings + 1
       ELSE pc' = "precheck" /\ UNCHANGED postings
    /\ denied' = FALSE
    /\ attemptedAfterDenial' = FALSE
    /\ UNCHANGED submitted
    /\ RunnerFrame

\* The check before the session: run_enhanced_automation returns when it
\* is denied, automated_runner.main only prints the reason.  The run then
\* goes on to the first posting the search finds.
RunnerPrecheck ==
    /\ pc = "precheck"
    /\ CallCanApplyNow("runner", "can_apply_now")
    /\ LET r == decide("runner", stats["runner"], now) IN
       IF runnerKind = "simple_enhanced" /\ ~r.allowed
       THEN pc' = "done" /\ UNCHANGED postings
       ELSE pc' = "gate" /\ postings' = postings + 1
    /\ UNCHANGED <<submitted, denied, attemptedAfterDenial>>
    /\ RunnerFrame

\* The scheduler check of one posting: apply_to_job_enhanced's own check for
\* the enhanced runner, the check at the top of the loop for the others.
RunnerGate ==
    /\ pc = "gate"
    /\ CallCanApplyNow("runner", "can_apply_now")
    /\ LET r == decide("runner", stats["runner"], now)
           s == after_date_check(stats["runner"], now)
           stop == CASE runnerKind = "enhanced" -> FALSE
                     [] runnerKind = "simple_enhanced" -> ~r.allowed
                     [] runnerKind = "automated" ->
                            ~r.allowed /\ s.applications_sent
                                            >= config.daily_application_limit
           attempt == IF runnerKind = "enhanced" THEN r.allowed ELSE ~stop IN
       /\ denied' = (denied \/ ~r.allowed)
       /\ attemptedAfterDenial' =
              (attemptedAfterDenial \/ (attempt /\ (denied \/ ~r.allowed)))
       /\ pc' = IF attempt THEN "attempt"
                ELSE IF stop THEN "done" ELSE "loopcheck"
    /\ UNCHANGED <<postings, submitted>>
    /\ RunnerFrame

\* The attempt ends without a submit (no apply button, form handling
\* failed, an exception): the posting is skipped.
RunnerAttemptFails ==
    /\ pc = "attempt"
    /\ IF runnerKind = "enhanced"
       THEN pc' = "loopcheck" /\ UNCHANGED postings
       ELSE NextPosting
    /\ UNCHANGED <<file, alive, stats, last, denied, attemptedAfterDenial>>
    /\ UNCHANGED ghostVars
    /\ RunnerFrame

\* The attempt submits the application.
RunnerSubmits ==
    /\ pc = "attempt"
    /\ pc' = "record"
    /\ submitted' = [submitted EXCEPT ![Today] = @ + 1]
    /\ UNCHANGED <<file, alive, stats, last, postings, denied,
                   attemptedAfterDenial, recCalls, zeroStart>>
    /\ RunnerFrame

\* After the submit the runner records the application.
RunnerRecord ==
    /\ pc = "record"
    /\ CallRecordApplication("runner")
    /\ IF runnerKind = "enhanced"
       THEN pc' = "loopcheck" /\ UNCHANGED postings
       ELSE NextPosting
    /\ UNCHANGED <<submitted, denied, attemptedAfterDenial>>
    /\ RunnerFrame

\* apply_to_job_enhanced: add_job_application raises before
\* record_application is reached; the except clause returns False.
RunnerDbFails ==
    /\ pc = "record"
    /\ runnerKind = "enhanced"
    /\ pc' = "loopcheck"
    /\ UNCHANGED <<file, alive, stats, last, postings, denied,
                   attemptedAfterDenial>>
    /\ UNCHANGED ghostVars
    /\ RunnerFrame

\* run_automation_enhanced: the check after each posting.
RunnerLoopCheck ==
    /\ pc = "loopcheck"
    /\ CallCanApplyNow("runner", "can_apply_now")
    /\ LET r == decide("runner", stats["runner"], now) IN
       /\ denied' = (denied \/ ~r.allowed)
       /\ IF r.allowed THEN NextPosting ELSE pc' = "done" /\ UNCHANGED postings
    /\ UNCHANGED <<submitted, attemptedAfterDenial>>
    /\ RunnerFrame

\* enhanced_main: get_application_stats after the run.
RunnerStatus ==
    /\ pc = "done"
    /\ runnerKind = "enhanced"
    /\ alive["runner"]
    /\ CallCanApplyNow("runner", "get_daily_progress")
    /\ UNCHANGED <<pc, postings, submitted, denied, attemptedAfterDenial>>
    /\ RunnerFrame

\* The process dies in the middle of a run; its scheduler object is lost.
RunnerCrash ==
    /\ pc \in {"precheck", "gate", "attempt", "record", "loopcheck"}
    /\ pc' = "idle"
    /\ alive' = [alive EXCEPT !["runner"] = FALSE]
    /\ UNCHANGED <<file, stats, last, postings, denied, attemptedAfterDenial>>
    /\ UNCHANGED ghostVars
    /\ RunnerFrame

\* ---------------------------------------------------------- the dashboard
\* WebDashboard.__init__
DashboardStart ==
    /\ ~alive["dashboard"]
    /\ Construct("dashboard")
    /\ last' = Called("construct", "dashboard", FALSE, "")
    /\ UNCHANGED <<pc, postings, submitted, denied, attemptedAfterDenial>>
    /\ UNCHANGED dashVars
    /\ Frame

api_status ==
    /\ alive["dashboard"]
    /\ CallCanApplyNow("dashboard", "get_daily_progress")
    /\ UNCHANGED <<pc, postings, submitted, denied, attemptedAfterDenial>>
    /\ UNCHANGED dashVars
    /\ Frame

api_pause_automation ==
    /\ alive["dashboard"]
    /\ \E m \in PauseDurations : CallPauseAutomation("dashboard", m)
    /\ Served

api_resume_automation ==
    /\ alive["dashboard"]
    /\ CallResumeAutomation("dashboard")
    /\ Served

Next ==
    \/ Tick
    \/ RunnerStart
    \/ RunnerPrecheck
    \/ RunnerGate
    \/ RunnerAttemptFails
    \/ RunnerSubmits
    \/ RunnerRecord
    \/ RunnerDbFails
    \/ RunnerLoopCheck
    \/ RunnerStatus
    \/ RunnerCrash

NextShared ==
    \/ Next
    \/ DashboardStart
    \/ api_status
    \/ api_pause_automation
    \/ api_resume_automation

\* The runs of one runner over daily_stats.json.
Spec == Init /\ [][Next]_vars

\* The runner and the web dashboard, two scheduler instances over one file.
SpecShared == InitShared /\ [][NextShared]_vars

\* --------------------------------------- writes of daily_stats.json fail
\* How a write of daily_stats.json can end: open(stats_file, 'w') raises and
\* the file is untouched, or json.dump raises after the file was truncated.
DiskOutcomes == {"ok", "open_fails", "dump_fails"}

\* The disk fills up, loses its permissions, or recovers.
DiskTurns ==
    /\ disk' \in DiskOutcomes \ {disk}
    /\ UNCHANGED <<now, weekday0, config, file, alive, stats, last>>
    /\ UNCHANGED <<runVars, dashVars, ghostVars, sessVars, runsVars, libVars>>

\* The process dies inside _save_daily_stats after open(stats_file, 'w') has
\* truncated the file and before json.dump has written all of it.
RunnerCrashInSave ==
    /\ pc = "record"
    /\ pc' = "idle"
    /\ alive' = [alive EXCEPT !["runner"] = FALSE]
    /\ file' = CorruptFile
    /\ UNCHANGED <<stats, last, postings, denied, attemptedAfterDenial>>
    /\ UNCHANGED ghostVars
    /\ RunnerFrame

InitFaults ==
    /\ InitWith(MissingFile)
    /\ config.weekdays_only
    /\ config.auto_pause_on_limit

\* The steps of the runner and of the dashboard, the clock standing still.
NextFaults ==
    \/ RunnerStart
    \/ RunnerPrecheck
    \/ RunnerGate
    \/ RunnerAttemptFails
    \/ RunnerSubmits
    \/ RunnerRecord
    \/ RunnerDbFails
    \/ RunnerLoopCheck
    \/ RunnerStatus
    \/ RunnerCrash
    \/ DashboardStart
    \/ api_status
    \/ api_pause_automation
    \/ api_resume_automation
    \/ DiskTurns
    \/ RunnerCrashInSave

\* The runner and the dashboard over a disk whose writes can fail, within
\* one period of the day.
SpecFaults == InitFaults /\ [][NextFaults]_vars

\* ----------------------------- the daily limit across scheduler objects
\* enhanced_main on one calendar date: the dashboard it started and its
\* EnhancedLinkedInAutomation, whose apply_to_job_enhanced applies only after
\* an allowing can_apply_now, run after run.  The database takes every
\* application and no process dies.
InitLimit ==
    /\ InitWith(MissingFile)
    /\ runnerKind = "enhanced"
    /\ config.weekdays_only
    /\ config.auto_pause_on_limit

NextLimit ==
    \/ RunnerStart
    \/ RunnerGate
    \/ RunnerAttemptFails
    \/ RunnerSubmits
    \/ RunnerRecord
    \/ RunnerLoopCheck
    \/ RunnerStatus
    \/ DashboardStart
    \/ api_status
    \/ api_pause_automation
    \/ api_resume_automation

SpecLimit == InitLimit /\ [][NextLimit]_vars

\* The record_application calls made on the date so far, under SpecLimit:
\* every submitted application is recorded by the runner's next step.
recorded_today == submitted[Today] - (IF pc = "record" THEN 1 ELSE 0)

\* ------------------------------------------- one automation object in use
\* The scheduler, the runner and the dashboard stand still.
SchedulerIdle == UNCHANGED <<schedVars, runVars, dashVars, ghostVars, libVars>>

\* No run is under way either: the object's caller is a test or a script.
OutsideRuns == SchedulerIdle /\ UNCHANGED runsVars

\* A LinkedInAutomation (with its configured limit, and applications_today
\* anywhere up to it) or an EnhancedLinkedInAutomation, just constructed.
InitSession ==
    /\ SchedulerInit(MissingFile)
    /\ RunsIdle
    /\ LibIdle
    /\ config.daily_application_limit = MaxLimit
    /\ config.weekdays_only
    /\ config.auto_pause_on_limit
    /\ runnerKind = "enhanced"
    /\ klass \in {"LinkedInAutomation", "EnhancedLinkedInAutomation"}
    /\ max_applications_per_day \in 0..MaxApplications
    /\ applications_today \in 0..max_applications_per_day
    /\ IsEnhanced => max_applications_per_day = 0
    /\ driver = None
    /\ wait = None
    /\ browsers = {}
    /\ spawned = 0
    /\ sessionUp = FALSE
    /\ call = NoCall

start_session ==
    /\ \E outcomes \in [1..Len(approaches) -> DriverOutcomes],
          post \in AfterDriver : CallStartSession(outcomes, post)
    /\ OutsideRuns

login ==
    /\ \E outcomes \in [1..max_retries -> LoginOutcomes] : CallLogin(outcomes)
    /\ OutsideRuns

\* The client asks for a search or for the listings while the object has no
\* driver to ask (the runs below do so with one): no page is involved.
search_jobs ==
    /\ ~(IF IsEnhanced THEN DriverResponds ELSE HasDriver)
    /\ CallSearchJobs("ok", [k \in 1..Len(Markers) |-> "timeout"])
    /\ OutsideRuns

get_job_listings ==
    /\ ~(IF IsEnhanced THEN DriverResponds ELSE HasDriver)
    /\ CallGetJobListings({}, <<>>)
    /\ OutsideRuns

\* The posting handed to apply_to_job is one of the last listing, or any
\* job dictionary the caller holds.
ApplyToJob ==
    /\ ~IsEnhanced
    /\ \E job_info \in [nr : 1..MaxCards, easy_apply : BOOLEAN,
                         score : Scores],
          outcome \in ApplyOutcomes : CallApplyToJob(job_info, outcome)
    /\ OutsideRuns

send_message ==
    /\ ~IsEnhanced
    /\ \E outcome \in DriverOutcomes : CallSendMessage(outcome)
    /\ OutsideRuns

close_session ==
    /\ CallCloseSession
    /\ OutsideRuns

GetApplicationStats ==
    /\ ~IsEnhanced
    /\ CallGetApplicationStats
    /\ OutsideRuns

NextSession ==
    \/ start_session
    \/ login
    \/ search_jobs
    \/ get_job_listings
    \/ ApplyToJob
    \/ send_message
    \/ close_session
    \/ GetApplicationStats

\* The methods of one automation object, called in any order.
SpecSession == InitSession /\ [][NextSession]_vars

\* ----------------------------------------------------------------- the runs
\* One run of main.py's main, of AutomationManager._run_automation (app.py)
\* or of EnhancedLinkedInAutomation.run_automation_enhanced, from the
\* construction of its automation object to its return.  The clock stands
\* still, and daily_stats.json is missing when the run begins.
Entries == {"main", "app", "enhanced"}

ClassOf(e) ==
    IF e = "enhanced" THEN "EnhancedLinkedInAutomation"
    ELSE "LinkedInAutomation"

InitRuns ==
    /\ SchedulerInit(MissingFile)
    /\ LibIdle
    /\ runnerKind = "enhanced"
    /\ config.weekdays_only
    /\ config.auto_pause_on_limit
    /\ entry \in Entries
    /\ entry # "enhanced" => config.daily_application_limit = MaxLimit
    /\ klass = ClassOf(entry)
    /\ max_applications_per_day \in 1..MaxApplications
    /\ entry = "enhanced" => max_applications_per_day = 1
    /\ driver = None
    /\ wait = None
    /\ applications_today = 0
    /\ browsers = {}
    /\ spawned = 0
    /\ sessionUp = FALSE
    /\ call = NoCall
    /\ rpc = "idle"
    /\ is_running = FALSE
    /\ jobs = <<>>
    /\ ix = 1
    /\ applications_sent = 0
    /\ summary = NoSummary
    /\ attempted = <<>>
    /\ stopped = None
    /\ listed = <<>>

\* What a step of the run leaves alone besides the scheduler's own state.
SchedulerRest ==
    UNCHANGED <<now, weekday0, config, disk, runVars, dashVars, libVars>>

\* AutomationManager.stats, the dictionary _run_automation reports: its keys.
stats_keys ==
    {"jobs_found", "applications_sent", "success_rate", "errors_count",
     "session_duration", "last_activity"}

\* The keys of the dictionaries run_automation_enhanced returns.
error_keys == {"success", "error"}
result_keys ==
    {"success", "jobs_found", "applications_sent", "success_rate",
     "session_duration"}

\* Whether a run that ends for this reason ends as a success: main returns
\* 0, also when it found no listing and after Ctrl-C; _run_automation ends
\* with 'automation_complete' and no error event; run_automation_enhanced
\* returns "success": True.
Succeeds(reason) ==
    \/ reason \in {"completed successfully", "automation_complete", "success"}
    \/ entry = "main" /\ reason \in {"No jobs found", "interrupted"}

\* The report of a run that ends for this reason.  main prints and logs and
\* returns a code; _run_automation hands self.stats to the session log;
\* run_automation_enhanced returns {"success": False, "error": reason}.
Report(reason) ==
    [summary EXCEPT !.ending = reason,
                    !.success = Succeeds(reason),
                    !.keys = CASE entry = "enhanced" -> error_keys
                               [] entry = "app" -> stats_keys
                               [] OTHER -> {}]

Ending(reason) == summary' = Report(reason)

\* The run begins.  start_automation sets is_running and starts the thread;
\* EnhancedLinkedInAutomation.__init__ constructs the scheduler.
RunStart ==
    /\ rpc = "idle"
    /\ rpc' = "start_session"
    /\ is_running' = (entry = "app")
    /\ IF entry = "enhanced"
       THEN /\ Construct("runner")
            /\ last' = Called("construct", "runner", FALSE, "")
            /\ UNCHANGED submitted
            /\ SchedulerRest
       ELSE SchedulerIdle
    /\ UNCHANGED sessVars
    /\ UNCHANGED <<entry, jobs, ix, applications_sent, summary, attempted,
                   stopped, listed>>

\* `if not automation.start_session(): return`: main and _run_automation
\* return as they are; run_automation_enhanced returns through its finally
\* clause.
RunStartSession ==
    /\ rpc = "start_session"
    /\ \E outcomes \in [1..Len(approaches) -> DriverOutcomes],
          post \in AfterDriver : CallStartSession(outcomes, post)
    /\ IF call'.ret
       THEN rpc' = "login" /\ UNCHANGED <<summary, is_running>>
       ELSE /\ Ending("Failed to start session")
            /\ IF entry = "enhanced"
               THEN rpc' = "close_session" /\ UNCHANGED is_running
               ELSE rpc' = "exited" /\ is_running' = FALSE
    /\ SchedulerIdle
    /\ UNCHANGED <<entry, jobs, ix, applications_sent, attempted, stopped,
                   listed>>

\* `if not automation.login(): close_session(); return`
RunLogin ==
    /\ rpc = "login"
    /\ \E outcomes \in [1..max_retries -> LoginOutcomes] : CallLogin(outcomes)
    /\ IF call'.ret
       THEN rpc' = "search_jobs" /\ UNCHANGED summary
       ELSE rpc' = "close_session" /\ Ending("Failed to login")
    /\ SchedulerIdle
    /\ UNCHANGED <<entry, is_running, jobs, ix, applications_sent, attempted,
                   stopped, listed>>

\* `if not automation.search_jobs(): close_session(); return`
RunSearchJobs ==
    /\ rpc = "search_jobs"
    /\ \E nav \in DriverOutcomes,
          markers \in [1..Len(Markers) -> MarkerOutcomes] :
          CallSearchJobs(nav, markers)
    /\ IF call'.ret
       THEN rpc' = "get_job_listings" /\ UNCHANGED summary
       ELSE rpc' = "close_session" /\ Ending("Failed to search jobs")
    /\ SchedulerIdle
    /\ UNCHANGED <<entry, is_running, jobs, ix, applications_sent, attempted,
                   stopped, listed>>

\* easy_apply_jobs = [job for job in jobs if job['has_easy_apply']]
has_easy_apply(job) == job.easy_apply

\* jobs = automation.get_job_listings(...); `if not jobs: close_session();
\* return`.  main and _run_automation report len(jobs) and loop over
\* easy_apply_jobs; run_automation_enhanced loops over jobs.
RunGetJobListings ==
    /\ rpc = "get_job_listings"
    /\ \E hits \in SUBSET (1..Len(JobSelectors)), page \in Pages :
          /\ CallGetJobListings(hits, page)
          /\ listed' = page
    /\ jobs' = IF entry = "enhanced" THEN call'.jobs
               ELSE SelectSeq(call'.jobs, has_easy_apply)
    /\ ix' = 1
    /\ applications_sent' = 0
    /\ LET found == IF entry = "enhanced" THEN summary.jobs_found
                    ELSE Len(call'.jobs)
       IN IF call'.jobs = <<>>
          THEN /\ rpc' = "close_session"
               /\ summary' = [Report("No jobs found") EXCEPT
                                  !.jobs_found = found]
          ELSE /\ rpc' = "loop"
               /\ summary' = [summary EXCEPT !.jobs_found = found]
    /\ SchedulerIdle
    /\ UNCHANGED <<entry, is_running, attempted, stopped>>

\* The for loop of main and _run_automation is left: the list is exhausted,
\* _run_automation finds is_running False, or applications_sent has reached
\* max_applications_per_day.  main goes on to get_application_stats,
\* _run_automation to close_session and the 'automation_complete' event.
RunLoopEnds ==
    /\ rpc = "loop"
    /\ entry # "enhanced"
    /\ \/ ix > Len(jobs)
       \/ entry = "app" /\ ~is_running
       \/ applications_sent >= max_applications_per_day
    /\ IF entry = "main"
       THEN rpc' = "get_application_stats" /\ UNCHANGED summary
       ELSE rpc' = "close_session" /\ Ending("automation_complete")
    /\ SchedulerIdle
    /\ UNCHANGED sessVars
    /\ UNCHANGED <<entry, is_running, jobs, ix, applications_sent, attempted,
                   stopped, listed>>

\* One iteration of the for loop of main and _run_automation:
\* `if automation.apply_to_job(job): applications_sent += 1`.
RunApplyToJob ==
    /\ rpc = "loop"
    /\ entry # "enhanced"
    /\ ix <= Len(jobs)
    /\ entry = "app" => is_running
    /\ applications_sent < max_applications_per_day
    /\ \E outcome \in ApplyOutcomes : CallApplyToJob(jobs[ix], outcome)
    /\ attempted' = Append(attempted, jobs[ix].nr)
    /\ applications_sent' = IF call'.ret THEN applications_sent + 1
                            ELSE applications_sent
    /\ summary' = IF call'.ret
                  THEN [summary EXCEPT !.applications_sent =
                                           applications_sent + 1]
                  ELSE summary
    /\ ix' = ix + 1
    /\ SchedulerIdle
    /\ UNCHANGED <<entry, rpc, is_running, jobs, stopped, listed>>

\* main: stats = automation.get_application_stats(), printed and logged.
RunGetApplicationStats ==
    /\ rpc = "get_application_stats"
    /\ CallGetApplicationStats
    /\ rpc' = "close_session"
    /\ Ending("completed successfully")
    /\ SchedulerIdle
    /\ UNCHANGED <<entry, is_running, jobs, ix, applications_sent, attempted,
                   stopped, listed>>

\* apply_to_job_enhanced once the scheduler has allowed it: as for
\* apply_to_job, or the form is submitted and add_job_application raises.
EnhancedApplyOutcomes == ApplyOutcomes \cup {"db_fails"}

\* apply_to_job_enhanced(job): can_apply_now first; when it allows, the job
\* page is opened and the Easy Apply button looked for (the attempt), and
\* after a submitted form record_application is called.  It does not look at
\* job_data['easy_apply'].
apply_to_job_enhanced(job_data, outcome) ==
    LET stale == stats["runner"].current_date # Today
        s == after_date_check(stats["runner"], now)
        r == decide("runner", stats["runner"], now)
        f == IF stale THEN save_daily_stats(file, s, disk) ELSE file
        ok == r.allowed /\ outcome = "submitted"
    IN
    /\ call' = [Returned("apply_to_job_enhanced", ok) EXCEPT
                   !.jobs = <<job_data>>,
                   !.input = IF r.allowed THEN <<outcome>> ELSE <<>>]
    /\ attempted' = IF r.allowed THEN Append(attempted, job_data.nr)
                    ELSE attempted
    /\ submitted' = IF r.allowed /\ outcome \in {"submitted", "db_fails"}
                    THEN [submitted EXCEPT ![Today] = @ + 1]
                    ELSE submitted
    /\ stats' = [stats EXCEPT !["runner"] =
                    IF ok THEN record_application(s, now) ELSE s]
    /\ file' = IF ok
               THEN save_daily_stats(f, record_application(s, now), disk)
               ELSE f
    /\ last' = IF ok THEN Called("record_application", "runner", FALSE, "")
               ELSE Called("can_apply_now", "runner", r.allowed, r.reason)
    /\ recCalls' = IF ok THEN recCalls + 1 ELSE recCalls
    /\ zeroStart' = IF stale THEN (zeroStart \/ recCalls = 0) ELSE zeroStart
    /\ applications_sent' = IF ok THEN applications_sent + 1
                            ELSE applications_sent
    /\ UNCHANGED alive

\* One iteration of the for loop of run_automation_enhanced, up to the
\* return of apply_to_job_enhanced.
RunApplyToJobEnhanced ==
    /\ rpc = "loop"
    /\ entry = "enhanced"
    /\ ix <= Len(jobs)
    /\ \E outcome \in EnhancedApplyOutcomes :
          apply_to_job_enhanced(jobs[ix], outcome)
    /\ rpc' = "can_apply_now"
    /\ SchedulerRest
    /\ UNCHANGED <<driver, wait, applications_today, browsers, spawned,
                   sessionUp>>
    /\ SessionFrame
    /\ UNCHANGED <<entry, is_running, jobs, ix, summary, stopped, listed>>

\* result = {"success": True, "jobs_found": len(jobs), "applications_sent":
\* successful_applications, ...}
result ==
    [jobs_found |-> Len(jobs), applications_sent |-> applications_sent,
     ending |-> "success", success |-> TRUE, keys |-> result_keys]

\* `if not self.scheduler.can_apply_now()[0]: break`, the rest of the
\* iteration; after a break the result is built.
RunLoopCheck ==
    /\ rpc = "can_apply_now"
    /\ CallCanApplyNow("runner", "can_apply_now")
    /\ IF decide("runner", stats["runner"], now).allowed
       THEN rpc' = "loop" /\ ix' = ix + 1 /\ UNCHANGED summary
       ELSE rpc' = "close_session" /\ summary' = result /\ UNCHANGED ix
    /\ UNCHANGED submitted
    /\ SchedulerRest
    /\ UNCHANGED sessVars
    /\ UNCHANGED <<entry, is_running, jobs, applications_sent, attempted,
                   stopped, listed>>

\* The for loop of run_automation_enhanced has gone through jobs.
RunLoopEndsEnhanced ==
    /\ rpc = "loop"
    /\ entry = "enhanced"
    /\ ix > Len(jobs)
    /\ rpc' = "close_session"
    /\ summary' = result
    /\ SchedulerIdle
    /\ UNCHANGED sessVars
    /\ UNCHANGED <<entry, is_running, jobs, ix, applications_sent, attempted,
                   stopped, listed>>

\* automation.close_session() before the return (the finally clause of
\* run_automation_enhanced), and the finally clause of _run_automation.
RunCloseSession ==
    /\ rpc = "close_session"
    /\ CallCloseSession
    /\ rpc' = "exited"
    /\ is_running' = FALSE
    /\ SchedulerIdle
    /\ UNCHANGED <<entry, jobs, ix, applications_sent, summary, attempted,
                   stopped, listed>>

\* The run is cut short after its session has started.  main: Ctrl-C raises
\* KeyboardInterrupt, whose handler logs and returns.  _run_automation: an
\* emit of the apply loop raises, the except clause reports the error and
\* the finally clause clears is_running.  run_automation_enhanced: whatever
\* is raised, the finally clause calls close_session.
RunInterrupted ==
    /\ rpc \in {"login", "search_jobs", "get_job_listings", "loop",
                "can_apply_now", "get_application_stats"}
    /\ entry = "app" => rpc = "loop"
    /\ IF entry = "enhanced"
       THEN rpc' = "close_session" /\ UNCHANGED is_running
       ELSE rpc' = "exited" /\ is_running' = FALSE
    /\ Ending(IF entry = "main" THEN "interrupted" ELSE "error")
    /\ SchedulerIdle
    /\ UNCHANGED sessVars
    /\ UNCHANGED <<entry, jobs, ix, applications_sent, attempted, stopped,
                   listed>>

\* AutomationManager.stop_automation, while the run it is meant for goes on.
stop_automation ==
    /\ entry = "app"
    /\ is_running
    /\ rpc \notin {"idle", "exited"}
    /\ is_running' = FALSE
    /\ stopped' = Len(attempted)
    /\ SchedulerIdle
    /\ UNCHANGED sessVars
    /\ UNCHANGED <<entry, rpc, jobs, ix, applications_sent, summary,
                   attempted, listed>>

NextRuns ==
    \/ RunStart
    \/ RunStartSession
    \/ RunLogin
    \/ RunSearchJobs
    \/ RunGetJobListings
    \/ RunApplyToJob
    \/ RunLoopEnds
    \/ RunGetApplicationStats
    \/ RunApplyToJobEnhanced
    \/ RunLoopCheck
    \/ RunLoopEndsEnhanced
    \/ RunCloseSession
    \/ RunInterrupted
    \/ stop_automation

\* One run of one of the three entry points.
SpecRuns == InitRuns /\ [][NextRuns]_vars

\* --------------------------------------------------------- the job matcher
\* ai_job_matcher.py works on text: a string is a sequence of characters, so
\* that `in` on strings is the search for a substring and lower() acts on
\* each character.
K_python == <<"p", "y", "t", "h", "o", "n">>
K_java == <<"j", "a", "v", "a">>
K_r == <<"r">>
K_sql == <<"s", "q", "l">>
K_remote == <<"r", "e", "m", "o", "t", "e">>
K_phd == <<"p", "h", "d">>
K_fintech == <<"f", "i", "n", "t", "e", "c", "h">>
K_berlin == <<"b", "e", "r", "l", "i", "n">>
U_Python == <<"P", "y", "t", "h", "o", "n">>
U_PhD == <<"P", "h", "D">>
W_years_of_experience ==
    <<"3", " ", "y", "e", "a", "r", "s", " ", "o", "f", " ",
      "e", "x", "p", "e", "r", "i", "e", "n", "c", "e">>
W_in_berlin == <<"i", "n", " ">> \o K_berlin

\* str.lower() on the characters in use.
lower_char(c) ==
    CASE c = "P" -> "p"
      [] c = "D" -> "d"
      [] OTHER -> c

lower(text) == [i \in 1..Len(text) |-> lower_char(text[i])]

\* `sub in text` on strings.
Contains(text, sub) ==
    \E i \in 1..(Len(text) - Len(sub) + 1) :
        SubSeq(text, i, i + Len(sub) - 1) = sub

\* ' '.join(parts)
RECURSIVE join(_)
join(parts) ==
    IF parts = <<>> THEN <<>>
    ELSE IF Len(parts) = 1 THEN parts[1]
    ELSE parts[1] \o <<" ">> \o join(Tail(parts))

\* The phrases a job description is made of here, in the order they appear
\* in it.
Vocabulary ==
    <<K_python, K_java, W_years_of_experience, K_remote, K_phd, K_fintech,
      W_in_berlin>>

\* self.skill_keywords: the categories in dictionary order, and of each
\* category's list the keywords that occur in a description over Vocabulary
\* or in a profile, in the order of the list.
skill_keywords ==
    <<[category |-> "programming", skills |-> <<K_python, K_java, K_r, K_sql>>],
      [category |-> "data_science", skills |-> <<K_r, K_python, K_sql>>]>>

\* education_keywords and remote_indicators, cut down the same way.
education_keywords == <<K_phd>>
remote_indicators == <<K_remote>>

\* experience_patterns: the phrases they match, with the number captured.
experience_phrases == <<[phrase |-> W_years_of_experience, years |-> 3]>>

\* location_patterns: the phrases they match, with the location captured.
location_phrases == <<[phrase |-> W_in_berlin, location |-> K_berlin]>>

\* max(xs) of a list of numbers, 0 for the empty list.
RECURSIVE max_or_zero(_)
max_or_zero(xs) ==
    IF xs = <<>> THEN 0
    ELSE LET m == max_or_zero(Tail(xs)) IN IF xs[1] > m THEN xs[1] ELSE m

\* extract_job_requirements(job_description): the dictionary it returns.
extract_job_requirements(description) ==
    LET full_text == join(description)
        job_desc_lower == lower(full_text)
        found(keywords) ==
            SelectSeq(keywords, LAMBDA k : Contains(job_desc_lower, k))
        matches(phrases) ==
            SelectSeq(phrases, LAMBDA ph : Contains(job_desc_lower, ph.phrase))
        experience_years ==
            [k \in 1..Len(matches(experience_phrases)) |->
                matches(experience_phrases)[k].years]
    IN [skills |-> [c \in 1..Len(skill_keywords) |->
                       found(skill_keywords[c].skills)],
        min_experience |-> max_or_zero(experience_years),
        education_required |-> found(education_keywords),
        locations |-> [k \in 1..Len(matches(location_phrases)) |->
                          matches(location_phrases)[k].location],
        is_remote |-> found(remote_indicators) # <<>>,
        full_text |-> full_text]

\* A number of the form num/den, as the divisions of calculate_match_score
\* produce them.
Ratio(num, den) == [num |-> num, den |-> den]

\* [s.lower() for s in user_profile.skills], as the set `in` tests against.
skills_lower(profile) == {lower(profile.skills[k]) : k \in 1..Len(profile.skills)}

\* The loop over job_requirements['skills'] (lines 179-195), from category c
\* on: what it adds to skill_score, total_skills, missing_skills and reasons.
RECURSIVE skill_matching(_, _, _)
skill_matching(profile, skills, c) ==
    IF c > Len(skills) THEN
        [skill_score |-> 0, total_skills |-> 0, missing_skills |-> <<>>,
         reasons |-> <<>>]
    ELSE
        LET required_skills == skills[c]
            rest == skill_matching(profile, skills, c + 1)
            matched_skills ==
                Len(SelectSeq(required_skills,
                              LAMBDA k : k \in skills_lower(profile)))
            missing ==
                SelectSeq(required_skills,
                          LAMBDA k : k \notin skills_lower(profile))
        IN IF required_skills = <<>> THEN rest
           ELSE [skill_score |-> matched_skills + rest.skill_score,
                 total_skills |-> Len(required_skills) + rest.total_skills,
                 missing_skills |-> missing \o rest.missing_skills,
                 reasons |-> (IF matched_skills > 0
                              THEN <<"Matched skills">> ELSE <<>>)
                             \o rest.reasons]

\* skill_match_percentage (line 197).
skill_match_percentage(skill_score, total_skills) ==
    IF total_skills > 0 THEN Ratio(skill_score * 100, total_skills)
    ELSE Ratio(0, 1)

\* experience_score without the branch of a profile that meets the
\* requirement.
experience_score_uncapped(experience_years, min_experience) ==
    IF min_experience > 0 THEN Ratio(experience_years * 100, min_experience)
    ELSE Ratio(100, 1)

\* experience_score (lines 200-206).
experience_score(experience_years, min_experience) ==
    IF experience_years >= min_experience THEN Ratio(100, 1)
    ELSE IF min_experience > 0
         THEN Ratio(experience_years * 100, min_experience)
         ELSE Ratio(100, 1)

\* education_score (lines 209-220).
education_score(profile, requirements) ==
    IF requirements.education_required = <<>> THEN 100
    ELSE LET user_education_lower ==
                 [k \in 1..Len(profile.education) |-> lower(profile.education[k])]
             matched_education ==
                 \E k \in 1..Len(requirements.education_required) :
                     Contains(join(user_education_lower),
                              requirements.education_required[k])
         IN IF matched_education THEN 100 ELSE 50

\* location_score (lines 223-238).
location_score(profile, requirements) ==
    IF requirements.is_remote /\ profile.remote_preference THEN 100
    ELSE IF ~requirements.is_remote /\ profile.preferred_locations # <<>> THEN
        LET job_locations_lower ==
                [k \in 1..Len(requirements.locations) |->
                    lower(requirements.locations[k])]
            location_match ==
                \E k \in 1..Len(profile.preferred_locations) :
                    Contains(join(job_locations_lower),
                             lower(profile.preferred_locations[k]))
        IN IF location_match THEN 100 ELSE 50
    ELSE 75

\* industry_score (lines 241-251).
industry_score(profile, requirements) ==
    IF profile.preferred_industries # <<>> THEN
        LET job_desc_lower == lower(requirements.full_text)
            industry_match ==
                \E k \in 1..Len(profile.preferred_industries) :
                    Contains(job_desc_lower, profile.preferred_industries[k])
        IN IF industry_match THEN 100 ELSE 50
    ELSE 75

\* The weights of the five sub-scores, in percent (lines 254-260).
weights == <<40, 25, 15, 10, 10>>

\* round(x, 2) of x = num/den >= 0, in hundredths.  Over the values
\* calculated here no x lies halfway between two hundredths.
round2(num, den) == (2 * 100 * num + den) \div (2 * den)

\* calculate_match_score(user_profile, job_requirements): the score it
\* returns in hundredths, the missing skills and the reasons, together with
\* the sub-scores it computed on the way.
calculate_match_score(profile, requirements) ==
    LET m == skill_matching(profile, requirements.skills, 1)
        skill == skill_match_percentage(m.skill_score, m.total_skills)
        experience ==
            experience_score(profile.experience_years,
                             requirements.min_experience)
        education == education_score(profile, requirements)
        location == location_score(profile, requirements)
        industry == industry_score(profile, requirements)
        \* total_score = num / (100 * skill.den * experience.den)
        num == weights[1] * skill.num * experience.den
               + weights[2] * experience.num * skill.den
               + (weights[3] * education + weights[4] * location
                  + weights[5] * industry) * skill.den * experience.den
    IN [match_score |-> round2(num, 100 * skill.den * experience.den),
        reasons |->
            m.reasons
            \o <<IF profile.experience_years >= requirements.min_experience
                 THEN "Meets experience requirement"
                 ELSE "Below experience requirement">>
            \o <<IF requirements.education_required = <<>>
                 THEN "No specific education requirements"
                 ELSE IF education = 100 THEN "Meets education requirements"
                 ELSE "May not meet education requirements">>
            \o (IF requirements.is_remote /\ profile.remote_preference
                THEN <<"Remote work preference matched">>
                ELSE IF location = 100 THEN <<"Location preference matched">>
                ELSE IF location = 50
                     THEN <<"Location may not match preferences">>
                ELSE <<>>)
            \o (IF industry = 100 THEN <<"Industry preference matched">>
                ELSE IF industry = 50
                     THEN <<"Industry may not match preferences">>
                ELSE <<>>),
        missing_skills |-> m.missing_skills,
        skill_score |-> m.skill_score,
        total_skills |-> m.total_skills,
        skill_match_percentage |-> skill,
        experience_score |-> experience,
        education_score |-> education,
        location_score |-> location,
        industry_score |-> industry,
        recommended_actions |-> <<>>]

\* One recommendation: what it is about, the skills it names and the years
\* it asks for.
Recommendation(kind, skills, years) ==
    [kind |-> kind, skills |-> skills, years |-> years]

\* The categories generate_recommendations takes for technical ones.
technical_categories == {"programming", "web_development", "data_science"}

\* generate_recommendations(user_profile, job_requirements, missing_skills).
\* The portfolio test runs over the keys of job_requirements['skills'].
generate_recommendations(profile, requirements, missing_skills) ==
    LET years_needed ==
            requirements.min_experience - profile.experience_years
        user_education_lower ==
            [k \in 1..Len(profile.education) |-> lower(profile.education[k])]
        education_met ==
            \E k \in 1..Len(requirements.education_required) :
                Contains(join(user_education_lower),
                         requirements.education_required[k])
    IN (IF missing_skills # <<>>
        THEN <<Recommendation("Consider learning",
                              SubSeq(missing_skills, 1,
                                     IF Len(missing_skills) < 3
                                     THEN Len(missing_skills) ELSE 3), 0)>>
        ELSE <<>>)
       \o (IF profile.experience_years < requirements.min_experience
           THEN <<Recommendation("Gain more years of experience", <<>>,
                                 years_needed)>>
           ELSE <<>>)
       \o (IF requirements.education_required # <<>> /\ ~education_met
           THEN <<Recommendation("Consider highlighting certifications",
                                 <<>>, 0)>>
           ELSE <<>>)
       \o (IF \E c \in DOMAIN requirements.skills :
                  skill_keywords[c].category \in technical_categories
           THEN <<Recommendation("Ensure your portfolio is up to date",
                                 <<>>, 0)>>
           ELSE <<>>)
       \o <<Recommendation("Research the company", <<>>, 0)>>

\* ------------------------------------------------ match_job on its own
\* Nothing but the matcher is in use: no scheduler is constructed, no
\* automation object has a session and no run is under way.
RestIdle ==
    /\ SchedulerInit(MissingFile)
    /\ config.daily_application_limit = MaxLimit
    /\ config.weekdays_only
    /\ config.auto_pause_on_limit
    /\ runnerKind = "enhanced"
    /\ RunsIdle
    /\ klass = "EnhancedLinkedInAutomation"
    /\ max_applications_per_day = 1
    /\ driver = None
    /\ wait = None
    /\ applications_today = 0
    /\ browsers = {}
    /\ spawned = 0
    /\ sessionUp = FALSE
    /\ call = NoCall

RestUnchanged ==
    UNCHANGED <<schedVars, runVars, dashVars, ghostVars, sessVars, runsVars,
                threadVars>>

\* The descriptions: at most MaxWords phrases of Vocabulary, in its order.
Descriptions ==
    { LET picked == SelectSeq([k \in 1..Len(Vocabulary) |-> k],
                              LAMBDA k : k \in S)
      IN [k \in 1..Len(picked) |-> Vocabulary[picked[k]]] :
      S \in {T \in SUBSET (1..Len(Vocabulary)) : Cardinality(T) <= MaxWords} }

\* The profiles: experience_years is a count of years, never negative.
Profiles ==
    [skills : {<<>>, <<U_Python, K_sql>>, <<K_python, K_java>>,
               <<K_python, K_java, K_r>>},
     experience_years : 0..MaxYears,
     education : {<<>>, <<U_PhD>>},
     preferred_industries : {<<>>, <<K_fintech>>},
     preferred_locations : {<<>>, <<K_berlin>>},
     remote_preference : BOOLEAN]

InitMatcher ==
    /\ RestIdle
    /\ form = NoForm
    /\ ThreadsIdle
    /\ user_profile \in Profiles
    /\ job_description \in Descriptions
    /\ job_requirements = NoRequirements
    /\ job_match = NoMatch
    /\ mpc = "called"

\* match_job, line 292.
MatchJobExtract ==
    /\ mpc = "called"
    /\ job_requirements' = extract_job_requirements(job_description)
    /\ mpc' = "extracted"
    /\ UNCHANGED <<user_profile, job_description, job_match>>
    /\ UNCHANGED formVars
    /\ RestUnchanged

\* match_job, line 293.
MatchJobScore ==
    /\ mpc = "extracted"
    /\ job_match' = calculate_match_score(user_profile, job_requirements)
    /\ mpc' = "scored"
    /\ UNCHANGED <<user_profile, job_description, job_requirements>>
    /\ UNCHANGED formVars
    /\ RestUnchanged

\* match_job, line 294, and the JobMatch it returns.
MatchJobRecommend ==
    /\ mpc = "scored"
    /\ job_match' =
          [job_match EXCEPT !.recommended_actions =
              generate_recommendations(user_profile, job_requirements,
                                       job_match.missing_skills)]
    /\ mpc' = "matched"
    /\ UNCHANGED <<user_profile, job_description, job_requirements>>
    /\ UNCHANGED formVars
    /\ RestUnchanged

NextMatcher ==
    \/ MatchJobExtract
    \/ MatchJobScore
    \/ MatchJobRecommend

SpecMatcher == InitMatcher /\ [][NextMatcher]_vars

\* ------------------------------------------ the Easy Apply form handlers
\* max_pages of _handle_application_form_enhanced.
max_pages == 5

\* The selectors of _find_next_button and of _find_submit_button, in order.
next_selectors ==
    <<"//button[contains(text(), 'Next')]",
      "//button[contains(text(), 'Continue')]",
      "//button[contains(@aria-label, 'Continue')]",
      "//button[contains(@class, 'jobs-apply-button')]">>

submit_selectors ==
    <<"//button[contains(text(), 'Submit')]",
      "//button[contains(text(), 'Send application')]",
      "//button[contains(@aria-label, 'Submit')]",
      "//button[contains(@class, 'jobs-apply-button')]">>

\* success_indicators of _handle_application_form.
success_indicators ==
    <<"//div[contains(text(), 'Application sent')]",
      "//div[contains(text(), 'Applied')]",
      "//button[contains(@aria-label, 'Applied')]">>

\* What a selector meets on a page: no element, an element that is not
\* enabled, or an enabled one.
ButtonOutcomes == {"none", "disabled", "enabled"}

\* _find_next_button and _find_submit_button that take the first element
\* found, enabled or not.
find_button_enabled_or_not(outcomes) ==
    IF \E k \in DOMAIN outcomes : outcomes[k] # "none"
    THEN CHOOSE k \in DOMAIN outcomes :
             /\ outcomes[k] # "none"
             /\ \A j \in 1..(k - 1) : outcomes[j] = "none"
    ELSE 0

\* _find_next_button and _find_submit_button: the first selector whose
\* element is enabled, 0 for None.
find_button(outcomes) ==
    IF \E k \in DOMAIN outcomes : outcomes[k] = "enabled"
    THEN CHOOSE k \in DOMAIN outcomes :
             /\ outcomes[k] = "enabled"
             /\ \A j \in 1..(k - 1) : outcomes[j] # "enabled"
    ELSE 0

\* A selector that stands in both lists meets the same element.
SamePage(next, submit) ==
    \A i \in DOMAIN next : \A j \in DOMAIN submit :
        next_selectors[i] = submit_selectors[j] => next[i] = submit[j]

NextLookups == [1..Len(next_selectors) -> ButtonOutcomes]
SubmitLookups == [1..Len(submit_selectors) -> ButtonOutcomes]

\* What follows the click on the submit button: which success indicators
\* the page shows, and whether it shows an error.
Afters == [success : [1..Len(success_indicators) -> BOOLEAN], error : BOOLEAN]

Page(fault, next, submit, success, error) ==
    [fault |-> fault, next |-> next, submit |-> submit, success |-> success,
     error |-> error]

\* The pages a form can show to _handle_application_form_enhanced, as far
\* as it looks at them: filling the fields fails; a lookup raises something
\* else than NoSuchElementException; a next button, whose click goes
\* through or raises; no next button and no submit button; a submit button,
\* whose click raises or goes through and is followed by what it is
\* followed by.
EnhancedPages ==
    {Page(ft, <<>>, <<>>, <<>>, FALSE) : ft \in {"fill", "lookup"}}
    \cup {Page(ft, n, <<>>, <<>>, FALSE) :
            ft \in {"none", "click"},
            n \in {x \in NextLookups : find_button(x) # 0}}
    \cup UNION {
           {Page("none", n, sb, <<>>, FALSE) :
              sb \in {x \in SubmitLookups :
                         SamePage(n, x) /\ find_button(x) = 0}}
           \cup {Page("click", n, sb, <<>>, FALSE) :
                   sb \in {x \in SubmitLookups :
                              SamePage(n, x) /\ find_button(x) # 0}}
           \cup UNION {
                  {Page("none", n, sb, a.success, a.error) :
                     sb \in {x \in SubmitLookups :
                                SamePage(n, x) /\ find_button(x) # 0}} :
                  a \in Afters} :
           n \in {x \in NextLookups : find_button(x) = 0}}

\* One iteration of the loop of _handle_application_form_enhanced (lines
\* 663-684) on page p, and the return after the loop (686-687).
handle_application_form_enhanced(f, p) ==
    LET handled == [f EXCEPT !.page = f.page + 1, !.shown = p]
        returns(v) == [handled EXCEPT !.pos = "returned", !.ret = v]
    IN IF p.fault \in {"fill", "lookup"} THEN returns(FALSE)
       ELSE IF find_button(p.next) # 0 THEN
           IF p.fault = "click" THEN returns(FALSE)
           ELSE IF f.page + 1 < max_pages THEN handled
           ELSE returns(FALSE)
       ELSE IF find_button(p.submit) # 0 THEN
           IF p.fault = "click" THEN returns(FALSE)
           ELSE [returns(TRUE) EXCEPT !.clicked = TRUE]
       ELSE returns(FALSE)

\* The forms _handle_application_form can meet: the submit button does not
\* become clickable; its click raises; after the click the page shows or
\* does not show success indicators and an error, and a lookup of an
\* indicator may raise something else than NoSuchElementException.
BasePages ==
    {Page(ft, <<>>, <<>>, <<>>, FALSE) : ft \in {"timeout", "click"}}
    \cup UNION { {Page(ft, <<>>, <<"enabled">>, a.success, a.error) :
                    ft \in {"none", "lookup"}} : a \in Afters }

\* _handle_application_form (lines 579-622).
handle_application_form(f, p) ==
    LET handled == [f EXCEPT !.page = f.page + 1, !.shown = p,
                             !.pos = "returned"]
    IN IF p.fault \in {"timeout", "click"} THEN [handled EXCEPT !.ret = FALSE]
       ELSE IF p.fault = "lookup"
       THEN [handled EXCEPT !.clicked = TRUE, !.ret = FALSE]
       ELSE [handled EXCEPT !.clicked = TRUE, !.ret = TRUE]

\* The Easy Apply button has been clicked: the form is open.
InitForms ==
    /\ RestIdle
    /\ MatcherIdle
    /\ ThreadsIdle
    /\ form \in {[NoForm EXCEPT !.handler = h, !.pos = "open"] :
                    h \in {"base", "enhanced"}}

FormFrame ==
    /\ UNCHANGED matchVars
    /\ RestUnchanged

HandleApplicationForm ==
    /\ form.handler = "base"
    /\ form.pos = "open"
    /\ \E p \in BasePages : form' = handle_application_form(form, p)
    /\ FormFrame

HandleApplicationFormEnhanced ==
    /\ form.handler = "enhanced"
    /\ form.pos = "open"
    /\ \E p \in EnhancedPages :
          form' = handle_application_form_enhanced(form, p)
    /\ FormFrame

NextForms ==
    \/ HandleApplicationForm
    \/ HandleApplicationFormEnhanced

SpecForms == InitForms /\ [][NextForms]_vars

\* ------------------------------------- AutomationManager and its threads
\* Where a _run_automation thread stands: not started yet ("unborn"),
\* started and before start_session ("created"), after start_session and
\* before the apply loop ("session"), at the top of the loop ("loop"), in
\* apply_to_job ("applying"), past close_session, or past an exception, and
\* before the finally clause ("finally"), and done ("ended").
InSession == {"session", "loop", "applying"}

\* The threads between start_session and close_session.
Active == {k \in Threads : threads[k] \in InSession}

\* Everything but AutomationManager's flag and its threads stands still.
ManagerFrame ==
    /\ UNCHANGED <<schedVars, runVars, dashVars, ghostVars, sessVars>>
    /\ UNCHANGED <<entry, rpc, jobs, ix, applications_sent, summary,
                   attempted, stopped, listed>>
    /\ UNCHANGED <<matchVars, formVars>>
    /\ UNCHANGED <<scheduler_is_running, scheduler_thread, loops,
                   stopped_threads, trigger>>

\* POST /api/automation/start: refused with 400 while is_running; else
\* start_automation sets the flag and starts a thread on _run_automation.
api_start_automation ==
    /\ ~is_running
    /\ \E k \in Threads :
          /\ threads[k] = "unborn"
          /\ \A j \in 1..(k - 1) : threads[j] # "unborn"
          /\ threads' = [threads EXCEPT ![k] = "created"]
    /\ is_running' = TRUE
    /\ ManagerFrame

\* POST /api/automation/stop: stop_automation clears the flag.
api_stop_automation ==
    /\ is_running' = FALSE
    /\ UNCHANGED threads
    /\ ManagerFrame

\* start_session returns True, or False and the run returns.
ThreadStartSession(k) ==
    /\ threads[k] = "created"
    /\ \E ok \in BOOLEAN :
          threads' = [threads EXCEPT ![k] = IF ok THEN "session" ELSE "finally"]
    /\ UNCHANGED is_running
    /\ ManagerFrame

\* login, search_jobs and get_job_listings: the run reaches its loop, or one
\* of them fails and the run closes the session and returns.
ThreadPrepares(k) ==
    /\ threads[k] = "session"
    /\ \E ok \in BOOLEAN :
          threads' = [threads EXCEPT ![k] = IF ok THEN "loop" ELSE "finally"]
    /\ UNCHANGED is_running
    /\ ManagerFrame

\* The top of the loop: with is_running False the loop breaks; else the
\* next job is applied to, or the jobs (or the limit) are exhausted.  After
\* the loop the session is closed.
ThreadLoopTop(k) ==
    /\ threads[k] = "loop"
    /\ IF ~is_running
       THEN threads' = [threads EXCEPT ![k] = "finally"]
       ELSE \E more \in BOOLEAN :
               threads' = [threads EXCEPT
                              ![k] = IF more THEN "applying" ELSE "finally"]
    /\ UNCHANGED is_running
    /\ ManagerFrame

\* apply_to_job returns.
ThreadApplied(k) ==
    /\ threads[k] = "applying"
    /\ threads' = [threads EXCEPT ![k] = "loop"]
    /\ UNCHANGED is_running
    /\ ManagerFrame

\* An exception in the session takes the run to its except clause; the
\* session is not closed.
ThreadRaises(k) ==
    /\ threads[k] \in InSession
    /\ threads' = [threads EXCEPT ![k] = "finally"]
    /\ UNCHANGED is_running
    /\ ManagerFrame

\* finally: self.is_running = False
ThreadFinally(k) ==
    /\ threads[k] = "finally"
    /\ threads' = [threads EXCEPT ![k] = "ended"]
    /\ is_running' = FALSE
    /\ ManagerFrame

InitManager ==
    /\ RestIdle
    /\ LibIdle

NextManager ==
    \/ api_start_automation
    \/ api_stop_automation
    \/ \E k \in Threads :
          \/ ThreadStartSession(k)
          \/ ThreadPrepares(k)
          \/ ThreadLoopTop(k)
          \/ ThreadApplied(k)
          \/ ThreadRaises(k)
          \/ ThreadFinally(k)

\* The start and stop requests of app.py and the threads they leave behind.
SpecManager == InitManager /\ [][NextManager]_vars

\* ----------------------------------- AutomationScheduler and its threads
\* Where a _run_scheduler thread stands: not started ("unborn"), at the
\* loop's test of is_running ("check"), in schedule.run_pending ("pending"),
\* in time.sleep(60) ("sleeping"), or past the loop ("exited").
Pending == {k \in Threads : loops[k] = "pending"}

\* Everything but the scheduler's flag and its threads stands still.
LoopFrame ==
    /\ UNCHANGED <<schedVars, runVars, dashVars, ghostVars, sessVars,
                   runsVars>>
    /\ UNCHANGED <<matchVars, formVars>>
    /\ UNCHANGED <<threads, trigger>>

\* start_scheduler: returns with a warning while is_running; else sets the
\* flag and starts a thread on _run_scheduler.
start_scheduler ==
    /\ ~scheduler_is_running
    /\ \E k \in Threads :
          /\ loops[k] = "unborn"
          /\ \A j \in 1..(k - 1) : loops[j] # "unborn"
          /\ loops' = [loops EXCEPT ![k] = "check"]
          /\ scheduler_thread' = k
    /\ scheduler_is_running' = TRUE
    /\ UNCHANGED stopped_threads
    /\ LoopFrame

\* How join(timeout=5) finds a thread: one about to test the flag reads
\* False and exits; one in time.sleep(60) wakes within the 5 seconds, tests
\* and exits, or sleeps on; one in run_pending is still there or has gone to
\* sleep.
join_timeout(at) ==
    CASE at = "check" -> {"exited"}
      [] at = "sleeping" -> {"exited", "sleeping"}
      [] at = "pending" -> {"pending", "sleeping"}
      [] OTHER -> {at}

\* stop_scheduler: clears the flag, joins scheduler_thread for at most 5
\* seconds and returns.
stop_scheduler ==
    /\ scheduler_is_running' = FALSE
    /\ IF scheduler_thread = None
       THEN UNCHANGED <<loops, stopped_threads>>
       ELSE /\ \E at \in join_timeout(loops[scheduler_thread]) :
                  loops' = [loops EXCEPT ![scheduler_thread] = at]
            /\ stopped_threads' = stopped_threads \cup {scheduler_thread}
    /\ UNCHANGED scheduler_thread
    /\ LoopFrame

\* while self.is_running:
LoopTest(k) ==
    /\ loops[k] = "check"
    /\ loops' = [loops EXCEPT
                    ![k] = IF scheduler_is_running THEN "pending" ELSE "exited"]
    /\ UNCHANGED <<scheduler_is_running, scheduler_thread, stopped_threads>>
    /\ LoopFrame

\* schedule.run_pending() returns, or raises into the except clause: the
\* thread sleeps.
LoopRanPending(k) ==
    /\ loops[k] = "pending"
    /\ loops' = [loops EXCEPT ![k] = "sleeping"]
    /\ UNCHANGED <<scheduler_is_running, scheduler_thread, stopped_threads>>
    /\ LoopFrame

\* time.sleep(60) is over.
LoopWakes(k) ==
    /\ loops[k] = "sleeping"
    /\ loops' = [loops EXCEPT ![k] = "check"]
    /\ UNCHANGED <<scheduler_is_running, scheduler_thread, stopped_threads>>
    /\ LoopFrame

InitLoops ==
    /\ RestIdle
    /\ LibIdle

NextLoops ==
    \/ start_scheduler
    \/ stop_scheduler
    \/ \E k \in Threads :
          \/ LoopTest(k)
          \/ LoopRanPending(k)
          \/ LoopWakes(k)

\* The start_scheduler and stop_scheduler calls on one AutomationScheduler
\* and the loop threads they leave behind.
SpecLoops == InitLoops /\ [][NextLoops]_vars

\* ------------------------------------------------ the scheduled trigger
\* What the automation function handed to schedule_automation does when it
\* is invoked: it returns, or it raises an Exception.
Outcomes == {"returns", "raises"}

\* The except clause of a trigger that only logs the failure.
on_failure_only_logs(st, t) == st

\* self.pause_automation(30)
on_failure(st, t) == pause_automation(st, t, 30)

\* Everything but the scheduler object and the trigger's record stands still.
TriggerFrame ==
    /\ UNCHANGED <<now, weekday0, config, disk, submitted>>
    /\ UNCHANGED <<runVars, dashVars, sessVars, runsVars>>
    /\ UNCHANGED <<matchVars, formVars>>
    /\ UNCHANGED <<threads, scheduler_is_running, scheduler_thread, loops,
                   stopped_threads>>

\* AutomationScheduler()
SchedulerConstruct ==
    /\ ~alive["runner"]
    /\ Construct("runner")
    /\ last' = Called("construct", "runner", FALSE, "")
    /\ UNCHANGED trigger
    /\ TriggerFrame

\* _run_automation_with_checks, run by schedule.run_pending: can_apply_now
\* with its date check; when it allows, the automation function; when that
\* raises, the pause.  Nothing is raised to the caller.
ScheduledTrigger ==
    /\ alive["runner"]
    /\ \E outcome \in Outcomes :
          LET stale == stats["runner"].current_date # Today
              checked == after_date_check(stats["runner"], now)
              r == decide("runner", stats["runner"], now)
              asked == IF stale THEN save_daily_stats(file, checked, disk)
                       ELSE file
              invoked == r.allowed
              raised == invoked /\ outcome = "raises"
              s == IF raised THEN on_failure(checked, now) ELSE checked
          IN /\ stats' = [stats EXCEPT !["runner"] = s]
             /\ file' = IF raised THEN save_daily_stats(asked, s, disk)
                        ELSE asked
             /\ last' = Called("_run_automation_with_checks", "runner",
                               r.allowed, r.reason)
             /\ trigger' = [ran |-> TRUE, invoked |-> invoked,
                            raised |-> raised, propagated |-> FALSE,
                            failed_at |-> IF raised THEN now
                                          ELSE trigger.failed_at,
                            repaused |-> IF raised THEN FALSE
                                         ELSE trigger.repaused]
             /\ zeroStart' = IF stale THEN (zeroStart \/ recCalls = 0)
                             ELSE zeroStart
    /\ UNCHANGED <<alive, recCalls>>
    /\ TriggerFrame

\* can_apply_now, called on the same scheduler between triggers.
SchedulerCanApplyNow ==
    /\ alive["runner"]
    /\ CallCanApplyNow("runner", "can_apply_now")
    /\ UNCHANGED trigger
    /\ TriggerFrame

\* resume_automation on the same scheduler.
SchedulerResume ==
    /\ alive["runner"]
    /\ CallResumeAutomation("runner")
    /\ trigger' = [trigger EXCEPT !.failed_at = None, !.repaused = FALSE]
    /\ TriggerFrame

\* pause_automation(m) on the same scheduler.
SchedulerPause ==
    /\ alive["runner"]
    /\ \E m \in PauseDurations : CallPauseAutomation("runner", m)
    /\ trigger' = [trigger EXCEPT !.repaused = (trigger.failed_at # None)]
    /\ TriggerFrame

InitTrigger ==
    /\ InitWith(MissingFile)
    /\ runnerKind = "enhanced"

NextTrigger ==
    \/ Tick
    \/ SchedulerConstruct
    \/ ScheduledTrigger
    \/ SchedulerCanApplyNow
    \/ SchedulerResume
    \/ SchedulerPause

\* One AutomationScheduler whose scheduled jobs come due as time passes.
SpecTrigger == InitTrigger /\ [][NextTrigger]_vars

\* ------------------------------------------------------------- the claims
\* A step in which instance i calls can_apply_now (directly, or through
\* get_daily_progress): the state before the step is what it decides on,
\* last' holds what it returns.
Asks(i) ==
    IF i = "runner"
    THEN RunnerPrecheck \/ RunnerGate \/ RunnerLoopCheck \/ RunnerStatus
    ELSE api_status

Paused(st, t) == st.paused_until # None /\ t < st.paused_until

LimitReached(st) == st.applications_sent >= config.daily_application_limit

DeniedForLimit(l) ==
    ~l.allowed /\ l.reason = "Daily application limit reached"

\* C1 as stated: in any state that is not paused, with applications_sent at
\* or over the limit and auto_pause_on_limit set, can_apply_now returns
\* (False, "Daily application limit reached").
C1_LimitDeniesInAnyState ==
    [][\A i \in Instances :
          (/\ Asks(i)
           /\ alive[i]
           /\ ~Paused(stats[i], now)
           /\ LimitReached(stats[i])
           /\ config.auto_pause_on_limit)
          => DeniedForLimit(last')]_vars

\* C1 amended: the same when the stored current_date is today's date, for
\* both scheduler classes, whatever the time of day, the weekday and the
\* session duration.
C1_LimitDeniesToday ==
    [][\A i \in Instances :
          (/\ Asks(i)
           /\ alive[i]
           /\ stats[i].current_date = Today
           /\ ~Paused(stats[i], now)
           /\ LimitReached(stats[i])
           /\ config.auto_pause_on_limit)
          => DeniedForLimit(last')]_vars

\* C1 witness: the runner's scheduler has just denied for the limit outside
\* every optimal window, on a weekend, with a session under way.
C1_Witness ==
    /\ last.op = "can_apply_now"
    /\ last.inst = "runner"
    /\ DeniedForLimit(last)
    /\ stats["runner"].current_date = Today
    /\ LimitReached(stats["runner"])
    /\ ~is_optimal_time(now)
    /\ WeekdayOf(now) >= 5
    /\ config.weekdays_only
    /\ stats["runner"].session_start_time # None

\* C2: once can_apply_now has denied a posting of a run, the run starts no
\* application attempt for that posting or a later one.
C2_NoAttemptAfterDenial == ~attemptedAfterDenial

InWindowOnAllowedDay(t) ==
    /\ is_optimal_time(t)
    /\ ~(config.weekdays_only /\ WeekdayOf(t) >= 5)

\* C3 as stated: can_apply_now never allows outside every optimal window,
\* nor on a weekend when weekdays_only is set, whatever the count, the limit
\* and auto_pause_on_limit are.
C3_AllowedOnlyInWindowOnWeekday ==
    [][\A i \in Instances :
          (Asks(i) /\ alive[i] /\ last'.allowed)
          => InWindowOnAllowedDay(now)]_vars

\* C3 amended: the same except when the count of the date has reached the
\* limit and auto_pause_on_limit is off, where can_apply_now allows with
\* the reason "Daily limit reached but auto-pause disabled".
C3_AllowedOnlyInWindowUnlessLimitOverride ==
    [][\A i \in Instances :
          (/\ Asks(i)
           /\ alive[i]
           /\ last'.allowed
           /\ ~(/\ LimitReached(after_date_check(stats[i], now))
                /\ ~config.auto_pause_on_limit))
          => InWindowOnAllowedDay(now)]_vars

\* C3 witness: with weekdays_only set, the runner's scheduler has allowed
\* below the limit, inside a window on a weekday, after it had recorded an
\* application.
C3_Witness ==
    /\ last.op = "can_apply_now"
    /\ last.inst = "runner"
    /\ last.allowed
    /\ last.reason = "Ready to apply"
    /\ config.weekdays_only
    /\ stats["runner"].current_date = Today
    /\ stats["runner"].applications_sent >= 1
    /\ ~LimitReached(stats["runner"])
    /\ InWindowOnAllowedDay(now)

\* C4: a pause in force denies; pause_automation(m) sets paused_until to
\* now + m and resume_automation clears it, each persisted at once; while
\* the persisted paused_until is clear no can_apply_now denies for the pause.
C4_PauseDeniesResumeClears ==
    [][/\ \A i \in Instances :
             (Asks(i) /\ alive[i] /\ Paused(stats[i], now))
             => (~last'.allowed /\ last'.reason = "Automation paused")
       /\ api_pause_automation
             => \E m \in PauseDurations :
                    /\ stats'["dashboard"].paused_until = now + m
                    /\ file'.state = "ok"
                    /\ file'.stats.paused_until = now + m
       /\ api_resume_automation
             => (/\ stats'["dashboard"].paused_until = None
                 /\ file'.state = "ok"
                 /\ file'.stats.paused_until = None)
       /\ \A i \in Instances :
             (/\ Asks(i)
              /\ alive[i]
              /\ file.state = "ok"
              /\ file.stats.paused_until = None)
             => last'.reason # "Automation paused"]_vars

\* C5: a can_apply_now call on a stored date that is not today's resets
\* applications_sent to 0 under today's date, persists the reset, and does
\* not deny for the daily limit.
C5_StaleDateResetsBeforeLimitCheck ==
    [][\A i \in Instances :
          (Asks(i) /\ alive[i] /\ stats[i].current_date # Today)
          => (/\ stats'[i].applications_sent = 0
              /\ stats'[i].current_date = Today
              /\ file' = [state |-> "ok", stats |-> stats'[i]]
              /\ ~DeniedForLimit(last'))]_vars

\* C5 witness: the runner's scheduler, whose count of the day before had
\* reached the limit, has answered its first can_apply_now of the new date
\* with "Ready to apply", and the file holds the reset record.
C5_Witness ==
    /\ last.op = "can_apply_now"
    /\ last.inst = "runner"
    /\ last.allowed
    /\ last.reason = "Ready to apply"
    /\ config.auto_pause_on_limit
    /\ Today = 1
    /\ submitted[0] >= config.daily_application_limit
    /\ recCalls = 0
    /\ file = [state |-> "ok", stats |-> default_stats(now)]
    /\ stats["runner"] = file.stats

\* C6: when the runner's scheduler began the current date at 0 and has made
\* recCalls record_application calls on it, get_daily_progress reports
\* applications_sent = recCalls.
C6_ProgressEqualsRecordCalls ==
    (/\ last.op = "get_daily_progress"
     /\ last.inst = "runner"
     /\ alive["runner"]
     /\ zeroStart)
    => get_daily_progress("runner", stats["runner"], now).applications_sent
           = recCalls

\* C7: every can_apply_now decides on the record daily_stats.json holds.
C7_DecidesOnPersistedState ==
    [][\A i \in Instances :
          (Asks(i) /\ alive[i] /\ file.state = "ok")
          => (/\ last'.allowed = decide(i, file.stats, now).allowed
              /\ last'.reason = decide(i, file.stats, now).reason)]_vars

\* C8: while every stored date is today's, no step lowers applications_sent,
\* neither in daily_stats.json, nor in a scheduler instance, nor from the
\* file to a scheduler constructed over it.
C8_CountNeverDecreasesWithinDate ==
    [][(/\ file.state = "ok"
        /\ file.stats.current_date = Today
        /\ \A i \in Instances : alive[i] => stats[i].current_date = Today)
       => (/\ file'.state = "ok"
           /\ file'.stats.applications_sent >= file.stats.applications_sent
           /\ \A i \in Instances :
                 alive'[i] =>
                     stats'[i].applications_sent
                         >= IF alive[i] THEN stats[i].applications_sent
                            ELSE file.stats.applications_sent)]_vars

\* C9: with a session started more than max_session_duration ago,
\* can_apply_now of either scheduler class denies (shown on a count below
\* the limit, where no earlier step of can_apply_now answers).
C9_LongSessionDenies ==
    [][\A i \in Instances :
          (/\ Asks(i)
           /\ alive[i]
           /\ stats[i].current_date = Today
           /\ ~LimitReached(stats[i])
           /\ stats[i].session_start_time # None
           /\ now - stats[i].session_start_time
                  > config.max_session_duration)
          => ~last'.allowed]_vars

\* C10: the applications_sent daily_stats.json holds for a date never
\* exceeds the number of applications submitted on that date.
C10_PersistedCountAtMostSubmitted ==
    file.state = "ok"
    => file.stats.applications_sent <= submitted[file.stats.current_date]

\* C11: no run of main, _run_automation or run_automation_enhanced ends
\* with a browser it started still running.
C11_NoRunEndsWithLiveDriver ==
    rpc = "exited" => browsers = {}

\* C12: a run of _run_automation that reached its apply loop, was told to
\* stop and was not cut short by an exception makes no attempt after
\* stop_automation, reports the applications_sent it counted, ends with the
\* reason "cancelled" and leaves no browser running.
C12_StopEndsRunAsCancelled ==
    (/\ entry = "app"
     /\ rpc = "exited"
     /\ stopped # None
     /\ jobs # <<>>
     /\ summary.ending # "error")
    => /\ Len(attempted) = stopped
       /\ summary.applications_sent = applications_sent
       /\ summary.ending = "cancelled"
       /\ browsers = {}

\* C13: run_automation_enhanced starts an application attempt only for cards
\* that show Easy Apply and score at least min_match_score, and makes its
\* attempts in the order of the cards on the page.
C13_AttemptsOnlyQuickApplyAboveThreshold ==
    entry = "enhanced"
    => \A k \in 1..Len(attempted) :
          /\ listed[attempted[k]].easy_apply
          /\ listed[attempted[k]].score >= min_match_score
          /\ k > 1 => attempted[k - 1] < attempted[k]

\* C14: the result of run_automation_enhanced reports as jobs_found the
\* number of cards extracted from the page, those below the threshold
\* included, and as applications_sent the successful applications.
C14_JobsFoundCountsEveryPosting ==
    (entry = "enhanced" /\ summary.ending = "success")
    => /\ summary.jobs_found = Len(listed)
       /\ summary.applications_sent = applications_sent

C16_ExhaustionNamesAllStrategies ==
    (call.op = "start_session" /\ klass = "LinkedInAutomation"
        /\ call.setup = "exhausted")
    => /\ call.tried = <<1, 2, 3>>
       /\ call.names = {approaches[k] : k \in 1..Len(approaches)}

\* C17: a login that meets a verification page fails at that attempt and
\* makes no further attempt, in both classes.
C17_ChallengeIsNeverRetried ==
    call.op = "login"
    => \A k \in 1..Len(call.input) :
          call.input[k] = "challenge"
          => (~call.ret /\ call.attempts = k)

C19_CounterStaysWithinLimit ==
    /\ [](klass = "LinkedInAutomation"
            => /\ applications_today <= max_applications_per_day
               /\ get_application_stats.remaining_applications >= 0)
    /\ [][(klass = "LinkedInAutomation" /\ call'.op = "apply_to_job")
            => /\ (\/ applications_today >= max_applications_per_day
                   \/ ~call'.jobs[1].easy_apply)
                  => ~call'.ret
               /\ applications_today' =
                     IF call'.ret THEN applications_today + 1
                     ELSE applications_today]_vars

\* apply_to_job has returned True and brought the counter to a limit of at
\* least one.
C19_Witness ==
    /\ klass = "LinkedInAutomation"
    /\ HasDriver
    /\ max_applications_per_day >= 1
    /\ applications_today = max_applications_per_day
    /\ call.op = "apply_to_job"
    /\ call.ret

\* C20: as long as no start_session of a LinkedInAutomation has succeeded
\* since construction or the last close_session, login, search_jobs,
\* apply_to_job and send_message return False, get_job_listings returns [],
\* none raises, and driver, wait and applications_today stay as they are.
C20_NothingWorksBeforeStartSession ==
    [][(/\ klass = "LinkedInAutomation"
        /\ ~sessionUp
        /\ call'.op \in {"login", "search_jobs", "apply_to_job",
                         "send_message", "get_job_listings"})
       => /\ ~call'.ret
          /\ ~call'.raised
          /\ call'.op = "get_job_listings" => call'.jobs = <<>>
          /\ UNCHANGED <<driver, wait, applications_today>>]_vars

\* C21: however a run of _run_automation or run_automation_enhanced ends,
\* what it reports carries jobs_found, applications_sent, success_rate and
\* errors_count.
C21_SummaryAlwaysCarriesCounts ==
    (rpc = "exited" /\ entry \in {"app", "enhanced"})
    => {"jobs_found", "applications_sent", "success_rate", "errors_count"}
           \subseteq summary.keys

\* C22: a run of main or run_automation_enhanced whose listing call finds
\* no posting ends as a success (exit code 0, "success": True).
C22_NoListingIsNotAFailure ==
    (/\ rpc = "exited"
     /\ entry \in {"main", "enhanced"}
     /\ summary.ending = "No jobs found")
    => summary.success

\* C23: in calculate_match_score the skills sub-score is the matched required
\* keywords over the required keywords, times 100, and it is 100 when the
\* posting requires no skill keyword in any category.
C23_SkillsSubScore ==
    mpc = "scored" =>
        LET p == job_match.skill_match_percentage
            nothing_required ==
                \A c \in DOMAIN job_requirements.skills :
                    job_requirements.skills[c] = <<>>
        IN IF nothing_required THEN p.num = 100 * p.den
           ELSE p.num * job_match.total_skills
                = 100 * job_match.skill_score * p.den

\* C24: a profile with the skills Python and sql and 4 years, matched against
\* a posting that asks for python, java and 3 years of experience, gets the
\* skill sub-score of 1 matched out of 2, the experience sub-score 100 and
\* java as the only missing skill.
C24_ScenarioMissesOnlyJava ==
    (/\ mpc = "scored"
     /\ job_description = <<K_python, K_java, W_years_of_experience>>
     /\ user_profile.skills = <<U_Python, K_sql>>
     /\ user_profile.experience_years = 4)
    => /\ job_match.missing_skills = <<K_java>>
       /\ 2 * job_match.skill_match_percentage.num
          = 100 * job_match.skill_match_percentage.den
       /\ job_match.experience_score = Ratio(100, 1)

\* C25: the score calculate_match_score returns lies between 0 and 100 (here
\* in hundredths), each of the five sub-scores lies between 0 and 100, and
\* the five weights are 40, 25, 15, 10 and 10 percent, 100 percent together.
C25_ScoreAndSubScoresWithinRange ==
    /\ weights = <<40, 25, 15, 10, 10>>
    /\ weights[1] + weights[2] + weights[3] + weights[4] + weights[5] = 100
    /\ mpc = "scored" =>
        /\ user_profile.experience_years >= 0
        /\ job_match.match_score >= 0
        /\ job_match.match_score <= 100 * 100
        /\ \A sub \in {job_match.skill_match_percentage,
                       job_match.experience_score} :
               sub.den > 0 /\ sub.num >= 0 /\ sub.num <= 100 * sub.den
        /\ \A sub \in {job_match.education_score, job_match.location_score,
                       job_match.industry_score} :
               sub >= 0 /\ sub <= 100

\* A profile short of the required experience and of one of the required
\* skills has been scored.
C25_Witness ==
    /\ mpc = "scored"
    /\ user_profile.experience_years < job_requirements.min_experience
    /\ job_match.skill_score > 0
    /\ job_match.missing_skills # <<>>
    /\ job_match.match_score > 0
    /\ job_match.match_score < 100 * 100

\* C26: daily_stats.json is written atomically: a scheduler that is
\* constructed, also after a crash during _save_daily_stats, finds the
\* complete previous state or the complete new one, never a partial file
\* that loads as the defaults.
C26_ConstructionFindsCompleteFile ==
    [][(RunnerStart \/ DashboardStart) => file.state # "corrupt"]_vars

\* C27: when the write of daily_stats.json fails, record_application,
\* pause_automation and resume_automation return normally with the state in
\* memory updated, and every can_apply_now of the instance decides on the
\* state it holds in memory.
C27_FailedWriteLeavesMemoryInCharge ==
    [][/\ (RunnerRecord /\ disk # "ok")
          => /\ last' = Called("record_application", "runner", FALSE, "")
             /\ stats'["runner"].applications_sent
                = stats["runner"].applications_sent + 1
             /\ stats'["runner"].last_application_time = now
             /\ stats'["runner"].session_start_time # None
       /\ (api_pause_automation /\ disk # "ok")
          => /\ last' = Called("pause_automation", "dashboard", FALSE, "")
             /\ \E m \in PauseDurations :
                    stats'["dashboard"] =
                        [stats["dashboard"] EXCEPT !.paused_until = now + m]
       /\ (api_resume_automation /\ disk # "ok")
          => /\ last' = Called("resume_automation", "dashboard", FALSE, "")
             /\ stats'["dashboard"] =
                    [stats["dashboard"] EXCEPT !.paused_until = None]
       /\ \A i \in Instances :
              (Asks(i) /\ alive[i])
              => LET r == IF IsSimple(i)
                          THEN simple_can_apply_now(stats[i], now)
                          ELSE can_apply_now(stats[i], now)
                 IN last'.allowed = r.allowed /\ last'.reason = r.reason]_vars

\* C27 witness: the runner's record_application could not write the file,
\* and its next can_apply_now has denied for the daily limit counted in
\* memory.
C27_Witness ==
    /\ last.op = "can_apply_now"
    /\ last.inst = "runner"
    /\ DeniedForLimit(last)
    /\ alive["runner"]
    /\ recCalls > 0
    /\ stats["runner"].applications_sent >= config.daily_application_limit
    /\ file.state # "ok"

C29_JudgedBySuccessOrAbsenceOfError ==
    (/\ form.pos = "returned"
     /\ form.clicked
     /\ form.shown.fault = "none")
    => (form.ret <=>
           \/ \E k \in DOMAIN form.shown.success : form.shown.success[k]
           \/ ~form.shown.error)

\* C30: _handle_application_form_enhanced handles at most max_pages pages;
\* it returns True exactly on a page that it could fill, on which no next
\* button was found and whose submit button it clicked, and False
\* otherwise: a page that cannot be filled, neither button found, or
\* max_pages pages advanced without a submit.
C30_FormHandlingEndsWithinMaxPages ==
    form.handler = "enhanced" =>
        /\ max_pages = 5
        /\ form.page <= max_pages
        /\ form.pos = "open" => form.page < max_pages
        /\ form.pos = "returned" =>
              /\ form.ret <=>
                    /\ form.shown.fault = "none"
                    /\ \A k \in DOMAIN form.shown.next :
                           form.shown.next[k] # "enabled"
                    /\ \E k \in DOMAIN form.shown.submit :
                           form.shown.submit[k] = "enabled"
              /\ form.ret <=> form.clicked

\* C30 witness: the fifth page in a row offered a next button, and the
\* handler has returned False.
C30_Witness ==
    /\ form.handler = "enhanced"
    /\ form.pos = "returned"
    /\ form.page = max_pages
    /\ form.shown.fault = "none"
    /\ \E k \in DOMAIN form.shown.next : form.shown.next[k] = "enabled"
    /\ ~form.ret

\* C31: EnhancedLinkedInAutomation.login, meeting no verification page,
\* makes at most 3 attempts, waits between every two consecutive attempts
\* whichever way the earlier one failed, returns True as soon as an attempt
\* finds the user logged in and False after the last attempt has failed.
C31_EveryRetryFollowsABackoff ==
    (/\ IsEnhanced
     /\ call.op = "login"
     /\ call.attempts > 0
     /\ \A k \in 1..call.attempts : call.input[k] # "challenge")
    => /\ call.attempts <= 3
       /\ \A k \in 1..(call.attempts - 1) :
              call.input[k] # "logged_in" /\ k \in call.slept
       /\ call.ret <=> call.input[call.attempts] = "logged_in"
       /\ ~call.ret => call.attempts = 3

\* C32: generate_recommendations returns, in this order, the note on the
\* first 3 missing skills if a skill is missing, the experience note if the
\* profile's years are short, the education note if education is required
\* and unmet, the portfolio hint only if a technical category has a required
\* keyword, and the networking hint as the last element.
C32_RecommendationsInOrder ==
    mpc = "matched" =>
        LET missing == job_match.missing_skills
            technical_required ==
                \E c \in DOMAIN job_requirements.skills :
                    /\ skill_keywords[c].category \in
                           {"programming", "web_development", "data_science"}
                    /\ job_requirements.skills[c] # <<>>
            kinds == [k \in DOMAIN job_match.recommended_actions |->
                         job_match.recommended_actions[k].kind]
        IN kinds =
             (IF missing # <<>> THEN <<"Consider learning">> ELSE <<>>)
             \o (IF user_profile.experience_years
                      < job_requirements.min_experience
                 THEN <<"Gain more years of experience">> ELSE <<>>)
             \o (IF job_match.education_score = 50
                 THEN <<"Consider highlighting certifications">> ELSE <<>>)
             \o (IF technical_required
                 THEN <<"Ensure your portfolio is up to date">> ELSE <<>>)
             \o <<"Research the company">>

\* C33: with a driver present and every wait raising TimeoutException,
\* LinkedInAutomation.login returns False (its first wait, for the username
\* field, raises out of the attempt, or the wait for the logged-in page times
\* out) and LinkedInAutomation.search_jobs returns False.
C33_TimeoutsFailLoginAndSearch ==
    klass = "LinkedInAutomation" =>
        /\ (/\ call.op = "login"
            /\ call.attempts = 1
            /\ call.input[1] \in {"timeout", "exception"})
           => ~call.ret
        /\ (/\ call.op = "search_jobs"
            /\ call.input = <<"ok">> \o
                   [k \in 1..Len(selectors_to_try) |-> "timeout"])
           => ~call.ret

\* C34: on one calendar date, with auto_pause_on_limit set and every
\* application preceded by an allowing can_apply_now, the applications
\* recorded through record_application by all runs and scheduler instances
\* over daily_stats.json never number more than daily_application_limit.
C34_RecordedWithinDailyLimit ==
    (config.auto_pause_on_limit /\ ~attemptedAfterDenial)
    => recorded_today <= config.daily_application_limit

\* C36: pause_automation and resume_automation change only paused_until:
\* the applications_sent, last_application_time and session_start_time that
\* daily_stats.json holds are the same after the call as before it, also
\* when the call is made on the dashboard's scheduler and the applications
\* were recorded by the run's.
C36_PauseAndResumeKeepTheCounts ==
    [][((api_pause_automation \/ api_resume_automation) /\ file.state = "ok")
       => /\ file'.state = "ok"
          /\ file'.stats.applications_sent = file.stats.applications_sent
          /\ file'.stats.last_application_time
                 = file.stats.last_application_time
          /\ file'.stats.session_start_time
                 = file.stats.session_start_time]_vars

\* C37: after pause_automation(m) at time t, every can_apply_now evaluated
\* before t + m denies unless resume_automation was called in between, also
\* when the calendar date changes between t and t + m.  The instance asked
\* still holds the paused_until = t + m of the pause, which only
\* resume_automation would have cleared.
C37_PauseOutlastsMidnight ==
    [][\A i \in Instances :
          (/\ Asks(i)
           /\ alive[i]
           /\ stats[i].paused_until # None
           /\ now < stats[i].paused_until)
          => ~last'.allowed]_vars

\* C35: in app.py's AutomationManager, whatever the interleaving of start
\* and stop requests, at most one _run_automation thread is between
\* start_session and close_session, and no run's finally clause clears
\* is_running while another run is between start_session and close_session.
C35_OneRunAtATime ==
    [][/\ Cardinality(Active') <= 1
       /\ \A k \in Threads :
             (ThreadFinally(k) /\ Active # {}) => is_running']_vars

\* C38: after any sequence of start_scheduler and stop_scheduler calls at
\* most one _run_scheduler thread is executing schedule.run_pending, and a
\* loop that a returned stop_scheduler had stopped never enters run_pending
\* again.
C38_OneSchedulerLoop ==
    [][/\ Cardinality(Pending') <= 1
       /\ \A k \in stopped_threads :
             LoopTest(k) => loops'[k] # "pending"]_vars

\* A can_apply_now asked within 30 ticks of the last failure of a triggered
\* automation function, on the date of the failure, with no
\* resume_automation since.
AskedInErrorPause ==
    /\ SchedulerCanApplyNow
    /\ trigger.failed_at # None
    /\ now < trigger.failed_at + 30
    /\ DateOf(trigger.failed_at) = Today

\* A trigger calls the automation function only when can_apply_now allows
\* at that moment, and raises nothing into the scheduler loop.
TriggerIsGuarded ==
    ScheduledTrigger
    => /\ trigger'.invoked
              => decide("runner", stats["runner"], now).allowed
       /\ trigger'.raised => trigger'.invoked
       /\ ~trigger'.propagated

====
